---- MODULE Spec2Model ----
(***************************************************************************)
(* Model of the Sudoku engine of Ignyos/Sudoku: Validator                  *)
(* (src/js/validator.js), Solver (src/js/solver.js), Generator             *)
(* (src/js/menu.js) and the Utils helpers they call (src/unnamed/part_003),*)
(* and of the undo and redo of the play grid, Grid (src/js/grid.js).       *)
(* A grid is grid[row][col] with row, col in 0..8 and cells in 0..9, as in *)
(* the source; 0 is an empty cell.                                         *)
(***************************************************************************)
EXTENDS Integers, Sequences, FiniteSets, TLC

VARIABLES
    heap,      \* the grid arrays that are live, by the name the code gives them
               \* (for the play grid: the fields of Grid and its note arrays)
    pc,        \* where the caller or the generator stands
    op,        \* the engine call in progress or just returned ("none" between calls)
    args,      \* the arguments of that call other than the grid
    ret,       \* its return value, once pc = "returned"
    before,    \* history: heap.grid when the call was made (for the play grid:
               \* the cell before and after each action of the two stacks)
    search,    \* the recursive search in progress: its kind, frames and counters
    gen        \* the local variables of Generator.generate and removeNumbers

vars == <<heap, pc, op, args, ret, before, search, gen>>

(***************************************************************************)
(* Bounds of the model                                                     *)
(***************************************************************************)
\* countSolutions is called with maxCount in 0..MaxCountBound
MaxCountBound == 3
\* the edited cells of an input grid take their values in 0..MaxWindowDigit
MaxWindowDigit == 3
\* a shuffle of hasUniqueSolutionFast may come out in any order when the grid
\* it searches has at most FreeShuffleCells empty cells; above that only its
\* ascending outcome is explored
FreeShuffleCells == 4

(***************************************************************************)
(* Utils                                                                   *)
(***************************************************************************)
\* getIndex with row and col exchanged
getIndex_swapped(row, col) == col * 9 + row

\* Utils.getIndex
getIndex(row, col) == row * 9 + col

\* Utils.getRowCol
getRowCol(index) == [row |-> index \div 9, col |-> index % 9]

\* Utils.getBoxNumber
getBoxNumber(row, col) == (row \div 3) * 3 + (col \div 3)

\* Utils.copyGrid: a new outer array holding a new array for every row
copyGrid(g) == [r \in DOMAIN g |-> [c \in DOMAIN g[r] |-> g[r][c]]]

(***************************************************************************)
(* Validator                                                               *)
(***************************************************************************)
\* isValidPlacement without its box loop
isValidPlacement_noBox(g, row, col, num) ==
    /\ ~ \E c \in 0..8 : c # col /\ g[row][c] = num
    /\ ~ \E r \in 0..8 : r # row /\ g[r][col] = num

\* isValidPlacement without its column loop
isValidPlacement_noColumn(g, row, col, num) ==
    LET boxRow == (row \div 3) * 3
        boxCol == (col \div 3) * 3
    IN  /\ ~ \E c \in 0..8 : c # col /\ g[row][c] = num
        /\ ~ \E r \in boxRow..(boxRow + 2) : \E c \in boxCol..(boxCol + 2) :
               r # row /\ c # col /\ g[r][c] = num

\* Validator.isValidPlacement: the three loops, each returning false on the
\* first hit
isValidPlacement(g, row, col, num) ==
    LET boxRow == (row \div 3) * 3
        boxCol == (col \div 3) * 3
    IN  /\ ~ \E c \in 0..8 : c # col /\ g[row][c] = num
        /\ ~ \E r \in 0..8 : r # row /\ g[r][col] = num
        /\ ~ \E r \in boxRow..(boxRow + 2) : \E c \in boxCol..(boxCol + 2) :
               r # row /\ c # col /\ g[r][c] = num

\* validateCols without the write that puts num back
RECURSIVE validateCols_noRestore(_, _, _, _)
validateCols_noRestore(g, row, col, invalidCells) ==
    IF col > 8 THEN [grid |-> g, invalidCells |-> invalidCells]
    ELSE LET num == g[row][col]
         IN  IF num # 0
             THEN LET g0 == [g EXCEPT ![row][col] = 0]
                      isValid == isValidPlacement(g0, row, col, num)
                  IN  validateCols_noRestore(g0, row, col + 1,
                          IF ~isValid THEN Append(invalidCells, getIndex(row, col))
                                      ELSE invalidCells)
             ELSE validateCols_noRestore(g, row, col + 1, invalidCells)

\* Validator.validateGrid, the inner loop "for (col ...)" from col on; the
\* grid is written (cell := 0, cell := num) as the code writes it
RECURSIVE validateCols(_, _, _, _)
validateCols(g, row, col, invalidCells) ==
    IF col > 8 THEN [grid |-> g, invalidCells |-> invalidCells]
    ELSE LET num == g[row][col]
         IN  IF num # 0
             THEN LET g0 == [g EXCEPT ![row][col] = 0]
                      isValid == isValidPlacement(g0, row, col, num)
                      g1 == [g0 EXCEPT ![row][col] = num]
                  IN  validateCols(g1, row, col + 1,
                          IF ~isValid THEN Append(invalidCells, getIndex(row, col))
                                      ELSE invalidCells)
             ELSE validateCols(g, row, col + 1, invalidCells)

\* Validator.validateGrid, the outer loop "for (row ...)" from row on
RECURSIVE validateRows(_, _, _)
validateRows(g, row, invalidCells) ==
    IF row > 8 THEN [grid |-> g, invalidCells |-> invalidCells]
    ELSE LET r == validateCols(g, row, 0, invalidCells)
         IN  validateRows(r.grid, row + 1, r.invalidCells)

\* Validator.validateGrid: the grid the call leaves behind and the returned list
validateGrid(g) == validateRows(g, 0, <<>>)

\* Validator.isComplete
isComplete(g) == ~ \E row \in 0..8 : \E col \in 0..8 : g[row][col] = 0

\* Validator.isSolved
isSolved(g) ==
    IF ~isComplete(g) THEN FALSE
    ELSE Len(validateGrid(g).invalidCells) = 0

\* candidatesFrom with the loop bound num < 9
RECURSIVE candidatesFrom_lt9(_, _, _, _, _)
candidatesFrom_lt9(g, row, col, num, candidates) ==
    IF num > 8 THEN candidates
    ELSE candidatesFrom_lt9(g, row, col, num + 1,
             IF isValidPlacement(g, row, col, num) THEN Append(candidates, num)
                                                   ELSE candidates)

\* Validator.getCandidates, the loop over num = 1..9 from num on
RECURSIVE candidatesFrom(_, _, _, _, _)
candidatesFrom(g, row, col, num, candidates) ==
    IF num > 9 THEN candidates
    ELSE candidatesFrom(g, row, col, num + 1,
             IF isValidPlacement(g, row, col, num) THEN Append(candidates, num)
                                                   ELSE candidates)

\* getCandidates without the test for a filled cell
getCandidates_noFilledTest(g, row, col) == candidatesFrom(g, row, col, 1, <<>>)

\* Validator.getCandidates
getCandidates(g, row, col) ==
    IF g[row][col] # 0 THEN <<>>
    ELSE candidatesFrom(g, row, col, 1, <<>>)


(***************************************************************************)
(* Solver                                                                  *)
(***************************************************************************)
\* findEmptyCell with its two loops exchanged: the first 0 of the
\* column-major scan
findEmptyCell_columnMajor(g) ==
    LET hasEmpty(col) == \E row \in 0..8 : g[row][col] = 0
    IN  IF ~ \E col \in 0..8 : hasEmpty(col) THEN <<>>
        ELSE LET col == CHOOSE c \in 0..8 :
                            hasEmpty(c) /\ \A c2 \in 0..(c - 1) : ~hasEmpty(c2)
                 row == CHOOSE r \in 0..8 :
                            g[r][col] = 0 /\ \A r2 \in 0..(r - 1) : g[r2][col] # 0
             IN  <<row, col>>

\* Solver.findEmptyCell: the first 0 of the row-major scan, that is the first
\* 0 of the first row that holds one; <<>> is null
findEmptyCell(g) ==
    LET hasEmpty(row) == \E col \in 0..8 : g[row][col] = 0
    IN  IF ~ \E row \in 0..8 : hasEmpty(row) THEN <<>>
        ELSE LET row == CHOOSE r \in 0..8 :
                            hasEmpty(r) /\ \A r2 \in 0..(r - 1) : ~hasEmpty(r2)
                 col == CHOOSE c \in 0..8 :
                            g[row][c] = 0 /\ \A c2 \in 0..(c - 1) : g[row][c2] # 0
             IN  <<row, col>>

\* the least element of a non-empty set of digits
minOf(S) == CHOOSE n \in S : \A m \in S : n <= m

\* validFrom with the loop bound num < 9
validFrom_lt9(g, row, col, num) == {n \in num..8 : isValidPlacement(g, row, col, n)}

\* the digits from num up that pass isValidPlacement at (row, col): the ones
\* the loop "for (...; num <= 9; num++)" does not pass over
validFrom(g, row, col, num) == {n \in num..9 : isValidPlacement(g, row, col, n)}

\* no search in progress
SearchOff ==
    [kind |-> "none", target |-> "none", mode |-> "off", stack |-> <<>>,
     solutionCount |-> 0, maxCount |-> 0, ok |-> FALSE, found |-> <<>>]

\* the first invocation of a recursive search on the array heap[target].
\* stack holds one frame per invocation that is inside its loop; mode is
\* "call" when an invocation is about to run and "ret" when one has returned.
SearchStart(kind, target, maxCount) ==
    [kind |-> kind, target |-> target, mode |-> "call", stack |-> <<>>,
     solutionCount |-> 0, maxCount |-> maxCount, ok |-> FALSE, found |-> <<>>]

\* the search has returned to the function that started it
SearchDone == search.mode = "ret" /\ search.stack = <<>>

Top == search.stack[Len(search.stack)]
Pop == SubSeq(search.stack, 1, Len(search.stack) - 1)
ReplaceTop(f) == [search.stack EXCEPT ![Len(search.stack)] = f]

\* solve_call returning false when no cell is empty
solve_call_fullIsFalse ==
    /\ search.kind = "solve" /\ search.mode = "call"
    /\ LET g == heap[search.target]
           emptyCell == findEmptyCell(g)
       IN  IF emptyCell = <<>>
           THEN /\ search' = [search EXCEPT !.mode = "ret", !.ok = FALSE]
                /\ heap' = heap
           ELSE LET row == emptyCell[1]
                    col == emptyCell[2]
                    valid == validFrom(g, row, col, 1)
                IN  IF valid = {}
                    THEN /\ search' = [search EXCEPT !.mode = "ret", !.ok = FALSE]
                         /\ heap' = heap
                    ELSE /\ heap' = [heap EXCEPT ![search.target][row][col] = minOf(valid)]
                         /\ search' = [search EXCEPT
                                !.stack = Append(@, [row |-> row, col |-> col,
                                                     num |-> minOf(valid), tried |-> {}])]
    /\ UNCHANGED <<pc, op, args, ret, before, gen>>

\* solve_call looking for the empty cell in the caller's first grid instead
\* of the grid it was given
solve_call_sharedGrid ==
    /\ search.kind = "solve" /\ search.mode = "call"
    /\ LET g == heap[search.target]
           emptyCell == findEmptyCell(heap.grid)
       IN  IF emptyCell = <<>>
           THEN /\ search' = [search EXCEPT !.mode = "ret", !.ok = TRUE]
                /\ heap' = heap
           ELSE LET row == emptyCell[1]
                    col == emptyCell[2]
                    valid == validFrom(g, row, col, 1)
                IN  IF valid = {}
                    THEN /\ search' = [search EXCEPT !.mode = "ret", !.ok = FALSE]
                         /\ heap' = heap
                    ELSE /\ heap' = [heap EXCEPT ![search.target][row][col] = minOf(valid)]
                         /\ search' = [search EXCEPT
                                !.stack = Append(@, [row |-> row, col |-> col,
                                                     num |-> minOf(valid), tried |-> {}])]
    /\ UNCHANGED <<pc, op, args, ret, before, gen>>

\* solve_call without the write grid[row][col] = num before the recursive
\* call
solve_call_noWrite ==
    /\ search.kind = "solve" /\ search.mode = "call"
    /\ LET g == heap[search.target]
           emptyCell == findEmptyCell(g)
       IN  IF emptyCell = <<>>
           THEN /\ search' = [search EXCEPT !.mode = "ret", !.ok = TRUE]
                /\ heap' = heap
           ELSE LET row == emptyCell[1]
                    col == emptyCell[2]
                    valid == validFrom(g, row, col, 1)
                IN  IF valid = {}
                    THEN /\ search' = [search EXCEPT !.mode = "ret", !.ok = FALSE]
                         /\ heap' = heap
                    ELSE /\ heap' = heap
                         /\ search' = [search EXCEPT
                                !.stack = Append(@, [row |-> row, col |-> col,
                                                     num |-> minOf(valid), tried |-> {}])]
    /\ UNCHANGED <<pc, op, args, ret, before, gen>>

\* Solver.solve, one invocation from its entry to its recursive call or to
\* its return (no empty cell: true; no digit fits: false)
solve_call ==
    /\ search.kind = "solve" /\ search.mode = "call"
    /\ LET g == heap[search.target]
           emptyCell == findEmptyCell(g)
       IN  IF emptyCell = <<>>
           THEN /\ search' = [search EXCEPT !.mode = "ret", !.ok = TRUE]
                /\ heap' = heap
           ELSE LET row == emptyCell[1]
                    col == emptyCell[2]
                    valid == validFrom(g, row, col, 1)
                IN  IF valid = {}
                    THEN /\ search' = [search EXCEPT !.mode = "ret", !.ok = FALSE]
                         /\ heap' = heap
                    ELSE /\ heap' = [heap EXCEPT ![search.target][row][col] = minOf(valid)]
                         /\ search' = [search EXCEPT
                                !.stack = Append(@, [row |-> row, col |-> col,
                                                     num |-> minOf(valid), tried |-> {}])]
    /\ UNCHANGED <<pc, op, args, ret, before, gen>>

\* solve_resume without "return true" after a recursive call that returned
\* true: the invocation backtracks and goes on
solve_resume_noReturnTrue ==
    /\ search.kind = "solve" /\ search.mode = "ret" /\ search.stack # <<>>
    /\ LET f == Top
           g == [heap[search.target] EXCEPT ![f.row][f.col] = 0]
           valid == validFrom(g, f.row, f.col, f.num + 1)
       IN  IF valid = {}
           THEN /\ heap' = [heap EXCEPT ![search.target] = g]
                /\ search' = [search EXCEPT !.stack = Pop, !.ok = FALSE]
           ELSE /\ heap' = [heap EXCEPT ![search.target] =
                               [g EXCEPT ![f.row][f.col] = minOf(valid)]]
                /\ search' = [search EXCEPT !.mode = "call",
                                 !.stack = ReplaceTop([f EXCEPT !.num = minOf(valid)])]
    /\ UNCHANGED <<pc, op, args, ret, before, gen>>

\* solve_resume without the backtracking write grid[row][col] = 0
solve_resume_noBacktrack ==
    /\ search.kind = "solve" /\ search.mode = "ret" /\ search.stack # <<>>
    /\ IF search.ok
       THEN /\ search' = [search EXCEPT !.stack = Pop]
            /\ heap' = heap
       ELSE LET f == Top
                g == heap[search.target]
                valid == validFrom(g, f.row, f.col, f.num + 1)
            IN  IF valid = {}
                THEN /\ heap' = [heap EXCEPT ![search.target] = g]
                     /\ search' = [search EXCEPT !.stack = Pop]
                ELSE /\ heap' = [heap EXCEPT ![search.target] =
                                    [g EXCEPT ![f.row][f.col] = minOf(valid)]]
                     /\ search' = [search EXCEPT !.mode = "call",
                                      !.stack = ReplaceTop([f EXCEPT !.num = minOf(valid)])]
    /\ UNCHANGED <<pc, op, args, ret, before, gen>>

\* solve_resume with the backtracking write clearing the cell to the left as
\* well (the cell itself in column 0)
solve_resume_clearsLeft ==
    /\ search.kind = "solve" /\ search.mode = "ret" /\ search.stack # <<>>
    /\ IF search.ok
       THEN /\ search' = [search EXCEPT !.stack = Pop]
            /\ heap' = heap
       ELSE LET f == Top
                left == IF f.col > 0 THEN f.col - 1 ELSE 0
                g == [heap[search.target] EXCEPT ![f.row][f.col] = 0, ![f.row][left] = 0]
                valid == validFrom(g, f.row, f.col, f.num + 1)
            IN  IF valid = {}
                THEN /\ heap' = [heap EXCEPT ![search.target] = g]
                     /\ search' = [search EXCEPT !.stack = Pop]
                ELSE /\ heap' = [heap EXCEPT ![search.target] =
                                    [g EXCEPT ![f.row][f.col] = minOf(valid)]]
                     /\ search' = [search EXCEPT !.mode = "call",
                                      !.stack = ReplaceTop([f EXCEPT !.num = minOf(valid)])]
    /\ UNCHANGED <<pc, op, args, ret, before, gen>>

\* Solver.solve, an invocation whose recursive call has returned: pass true
\* on, or backtrack and go on with the next digit that fits
solve_resume ==
    /\ search.kind = "solve" /\ search.mode = "ret" /\ search.stack # <<>>
    /\ IF search.ok
       THEN /\ search' = [search EXCEPT !.stack = Pop]
            /\ heap' = heap
       ELSE LET f == Top
                g == [heap[search.target] EXCEPT ![f.row][f.col] = 0]
                valid == validFrom(g, f.row, f.col, f.num + 1)
            IN  IF valid = {}
                THEN /\ heap' = [heap EXCEPT ![search.target] = g]
                     /\ search' = [search EXCEPT !.stack = Pop]
                ELSE /\ heap' = [heap EXCEPT ![search.target] =
                                    [g EXCEPT ![f.row][f.col] = minOf(valid)]]
                     /\ search' = [search EXCEPT !.mode = "call",
                                      !.stack = ReplaceTop([f EXCEPT !.num = minOf(valid)])]
    /\ UNCHANGED <<pc, op, args, ret, before, gen>>

\* Solver.countSolutions, one invocation of the closure count from its entry
\* to its recursive call or to its return.  found is a history value: the
\* grid g as it stands whenever solutionCount++ runs.
count_call ==
    /\ search.kind = "count" /\ search.mode = "call"
    /\ IF search.solutionCount >= search.maxCount
       THEN /\ search' = [search EXCEPT !.mode = "ret"]
            /\ heap' = heap
       ELSE LET g == heap[search.target]
                emptyCell == findEmptyCell(g)
            IN  IF emptyCell = <<>>
                THEN /\ search' = [search EXCEPT !.mode = "ret",
                                      !.solutionCount = @ + 1,
                                      !.found = Append(@, g)]
                     /\ heap' = heap
                ELSE LET row == emptyCell[1]
                         col == emptyCell[2]
                         valid == validFrom(g, row, col, 1)
                     IN  IF valid = {}
                         THEN /\ search' = [search EXCEPT !.mode = "ret"]
                              /\ heap' = heap
                         ELSE /\ heap' = [heap EXCEPT
                                     ![search.target][row][col] = minOf(valid)]
                              /\ search' = [search EXCEPT
                                     !.stack = Append(@, [row |-> row, col |-> col,
                                                num |-> minOf(valid), tried |-> {}])]
    /\ UNCHANGED <<pc, op, args, ret, before, gen>>

\* count_resume without the write g[row][col] = 0
count_resume_noClear ==
    /\ search.kind = "count" /\ search.mode = "ret" /\ search.stack # <<>>
    /\ LET f == Top
           g == heap[search.target]
           valid == validFrom(g, f.row, f.col, f.num + 1)
       IN  IF search.solutionCount >= search.maxCount \/ valid = {}
           THEN /\ heap' = [heap EXCEPT ![search.target] = g]
                /\ search' = [search EXCEPT !.stack = Pop]
           ELSE /\ heap' = [heap EXCEPT ![search.target] =
                               [g EXCEPT ![f.row][f.col] = minOf(valid)]]
                /\ search' = [search EXCEPT !.mode = "call",
                                 !.stack = ReplaceTop([f EXCEPT !.num = minOf(valid)])]
    /\ UNCHANGED <<pc, op, args, ret, before, gen>>

\* Solver.countSolutions, an invocation of count whose recursive call has
\* returned: clear the cell, leave when maxCount is reached, else go on with
\* the next digit that fits
count_resume ==
    /\ search.kind = "count" /\ search.mode = "ret" /\ search.stack # <<>>
    /\ LET f == Top
           g == [heap[search.target] EXCEPT ![f.row][f.col] = 0]
           valid == validFrom(g, f.row, f.col, f.num + 1)
       IN  IF search.solutionCount >= search.maxCount \/ valid = {}
           THEN /\ heap' = [heap EXCEPT ![search.target] = g]
                /\ search' = [search EXCEPT !.stack = Pop]
           ELSE /\ heap' = [heap EXCEPT ![search.target] =
                               [g EXCEPT ![f.row][f.col] = minOf(valid)]]
                /\ search' = [search EXCEPT !.mode = "call",
                                 !.stack = ReplaceTop([f EXCEPT !.num = minOf(valid)])]
    /\ UNCHANGED <<pc, op, args, ret, before, gen>>

\* Solver.hasUniqueSolution and Solver.isSolvable are the call and return
\* actions CallHasUniqueSolution, ReturnHasUniqueSolution, CallIsSolvable and
\* ReturnIsSolvable below

(***************************************************************************)
(* Generator.hasUniqueSolutionFast                                         *)
(***************************************************************************)
\* the number of empty cells of g
emptyCount(g) == Cardinality({i \in 0..80 : g[i \div 9][i % 9] = 0})

\* Generator.shuffle as hasUniqueSolutionFast uses it: the loop tries the
\* digits in the shuffled order, so after the digits of a set S are left to
\* try, the next one can be any digit of S
shuffleNext(g, S) ==
    IF emptyCount(g) <= FreeShuffleCells THEN S ELSE {minOf(S)}

\* fast_call with the early exit "if (solutionCount >= 1) return"
fast_call_stopAtOne ==
    /\ search.kind = "fast" /\ search.mode = "call"
    /\ IF search.solutionCount >= 1
       THEN /\ search' = [search EXCEPT !.mode = "ret"]
            /\ heap' = heap
       ELSE LET g == heap[search.target]
                emptyCell == findEmptyCell(g)
            IN  IF emptyCell = <<>>
                THEN /\ search' = [search EXCEPT !.mode = "ret",
                                      !.solutionCount = @ + 1,
                                      !.found = Append(@, g)]
                     /\ heap' = heap
                ELSE LET row == emptyCell[1]
                         col == emptyCell[2]
                         valid == validFrom(g, row, col, 1)
                     IN  IF valid = {}
                         THEN /\ search' = [search EXCEPT !.mode = "ret"]
                              /\ heap' = heap
                         ELSE \E num \in shuffleNext(g, valid) :
                                /\ heap' = [heap EXCEPT ![search.target][row][col] = num]
                                /\ search' = [search EXCEPT
                                       !.stack = Append(@, [row |-> row, col |-> col,
                                                            num |-> num, tried |-> {num}])]
    /\ UNCHANGED <<pc, op, args, ret, before, gen>>

\* Generator.hasUniqueSolutionFast, one invocation of its closure
\* countSolutions from its entry to its recursive call or to its return
fast_call ==
    /\ search.kind = "fast" /\ search.mode = "call"
    /\ IF search.solutionCount > 1
       THEN /\ search' = [search EXCEPT !.mode = "ret"]
            /\ heap' = heap
       ELSE LET g == heap[search.target]
                emptyCell == findEmptyCell(g)
            IN  IF emptyCell = <<>>
                THEN /\ search' = [search EXCEPT !.mode = "ret",
                                      !.solutionCount = @ + 1,
                                      !.found = Append(@, g)]
                     /\ heap' = heap
                ELSE LET row == emptyCell[1]
                         col == emptyCell[2]
                         valid == validFrom(g, row, col, 1)
                     IN  IF valid = {}
                         THEN /\ search' = [search EXCEPT !.mode = "ret"]
                              /\ heap' = heap
                         ELSE \E num \in shuffleNext(g, valid) :
                                /\ heap' = [heap EXCEPT ![search.target][row][col] = num]
                                /\ search' = [search EXCEPT
                                       !.stack = Append(@, [row |-> row, col |-> col,
                                                            num |-> num, tried |-> {num}])]
    /\ UNCHANGED <<pc, op, args, ret, before, gen>>

\* Generator.hasUniqueSolutionFast, an invocation of the closure whose
\* recursive call has returned
fast_resume ==
    /\ search.kind = "fast" /\ search.mode = "ret" /\ search.stack # <<>>
    /\ LET f == Top
           g == [heap[search.target] EXCEPT ![f.row][f.col] = 0]
           left == validFrom(g, f.row, f.col, 1) \ f.tried
       IN  IF search.solutionCount > 1 \/ left = {}
           THEN /\ heap' = [heap EXCEPT ![search.target] = g]
                /\ search' = [search EXCEPT !.stack = Pop]
           ELSE \E num \in shuffleNext(g, left) :
                  /\ heap' = [heap EXCEPT ![search.target] =
                                 [g EXCEPT ![f.row][f.col] = num]]
                  /\ search' = [search EXCEPT !.mode = "call",
                                   !.stack = ReplaceTop([f EXCEPT !.num = num,
                                                           !.tried = @ \cup {num}])]
    /\ UNCHANGED <<pc, op, args, ret, before, gen>>

(***************************************************************************)
(* Input grids                                                             *)
(***************************************************************************)
SolvedRows ==
    << <<1,2,3,4,5,6,7,8,9>>, <<4,5,6,7,8,9,1,2,3>>, <<7,8,9,1,2,3,4,5,6>>,
       <<2,1,4,3,6,5,8,9,7>>, <<3,6,5,8,9,7,2,1,4>>, <<8,9,7,2,1,4,3,6,5>>,
       <<5,3,1,6,4,2,9,7,8>>, <<6,4,2,9,7,8,5,3,1>>, <<9,7,8,5,3,1,6,4,2>> >>

\* a solved grid
Solved == [r \in 0..8 |-> [c \in 0..8 |-> SolvedRows[r + 1][c + 1]]]

\* the all-zero grid
Empty == [r \in 0..8 |-> [c \in 0..8 |-> 0]]

\* g with its first k cells (row-major) cleared
ClearFirst(g, k) ==
    [r \in 0..8 |-> [c \in 0..8 |-> IF r * 9 + c < k THEN 0 ELSE g[r][c]]]

\* g with its last k cells (row-major) cleared
ClearLast(g, k) ==
    [r \in 0..8 |-> [c \in 0..8 |-> IF r * 9 + c > 80 - k THEN 0 ELSE g[r][c]]]

\* only the three diagonal boxes of g
DiagonalOnly(g) ==
    [r \in 0..8 |-> [c \in 0..8 |-> IF r \div 3 = c \div 3 THEN g[r][c] ELSE 0]]

ClearCounts == {0, 1, 2, 9, 18, 30, 40, 63, 81}

\* the cells (0,0), (0,1), (3,0), (3,1) hold 1 2 / 2 1 in Solved: they are
\* overwritten, the first three with any digit of 0..MaxWindowDigit, the
\* fourth cleared or kept
WindowEdit(g, e, keep) ==
    [g EXCEPT ![0][0] = e[1], ![0][1] = e[2], ![3][0] = e[3],
              ![3][1] = IF keep THEN @ ELSE 0]

WindowEdits == [1..3 -> 0..MaxWindowDigit]

InputGrids ==
    {ClearFirst(Solved, k) : k \in ClearCounts}
    \cup {ClearLast(Solved, k) : k \in ClearCounts}
    \cup {WindowEdit(Solved, e, keep) : e \in WindowEdits, keep \in BOOLEAN}
    \cup {DiagonalOnly(Solved)}

(***************************************************************************)
(* The engine called on a grid the caller holds                            *)
(***************************************************************************)
NoArgs == [none |-> TRUE]

GenOff ==
    [difficulty |-> "none", attempt |-> 0, fallback |-> FALSE, runs |-> 0,
     cluesCount |-> 0, cellsToRemove |-> 0, positions |-> <<>>, idx |-> 0,
     removed |-> 0, row |-> 0, col |-> 0, backup |-> 0,
     lastFailed |-> [r \in 0..8 |-> [c \in 0..8 |-> 0]]]

HeapOf(g) ==
    [grid |-> g, gridCopy |-> Empty, solvedGrid |-> Empty, puzzle |-> Empty,
     testGrid |-> Empty]

Init ==
    /\ heap \in {HeapOf(g) : g \in InputGrids}
    /\ pc = "idle"
    /\ op = "none"
    /\ args = NoArgs
    /\ ret = FALSE
    /\ before = heap.grid
    /\ search = SearchOff
    /\ gen = GenOff

\* the caller calls Solver.solve(grid)
CallSolve ==
    /\ pc = "idle"
    /\ pc' = "solve"
    /\ op' = "solve"
    /\ before' = heap.grid
    /\ search' = SearchStart("solve", "grid", 0)
    /\ UNCHANGED <<heap, args, ret, gen>>

ReturnSolve ==
    /\ pc = "solve" /\ SearchDone
    /\ pc' = "returned"
    /\ ret' = search.ok
    /\ search' = SearchOff
    /\ UNCHANGED <<heap, op, args, before, gen>>

\* CallCountSolutions with count run on the caller's array, no copy made
CallCountSolutions_noCopy ==
    /\ pc = "idle"
    /\ \E maxCount \in 0..MaxCountBound :
         /\ args' = [maxCount |-> maxCount]
         /\ search' = SearchStart("count", "grid", maxCount)
    /\ pc' = "countSolutions"
    /\ op' = "countSolutions"
    /\ before' = heap.grid
    /\ UNCHANGED <<heap, ret, gen>>

\* the caller calls Solver.countSolutions(grid, maxCount): the copy is made
\* and count(gridCopy) is called
CallCountSolutions ==
    /\ pc = "idle"
    /\ \E maxCount \in 0..MaxCountBound :
         /\ args' = [maxCount |-> maxCount]
         /\ search' = SearchStart("count", "gridCopy", maxCount)
    /\ heap' = [heap EXCEPT !.gridCopy = copyGrid(heap.grid)]
    /\ pc' = "countSolutions"
    /\ op' = "countSolutions"
    /\ before' = heap.grid
    /\ UNCHANGED <<ret, gen>>

\* countSolutions returns solutionCount; search keeps the history found
ReturnCountSolutions ==
    /\ pc = "countSolutions" /\ SearchDone
    /\ pc' = "returned"
    /\ ret' = search.solutionCount
    /\ search' = [search EXCEPT !.mode = "off"]
    /\ UNCHANGED <<heap, op, args, before, gen>>

\* CallHasUniqueSolution with countSolutions(grid, 1)
CallHasUniqueSolution_max1 ==
    /\ pc = "idle"
    /\ heap' = [heap EXCEPT !.gridCopy = copyGrid(heap.grid)]
    /\ search' = SearchStart("count", "gridCopy", 1)
    /\ pc' = "hasUniqueSolution"
    /\ op' = "hasUniqueSolution"
    /\ before' = heap.grid
    /\ UNCHANGED <<args, ret, gen>>

\* the caller calls Solver.hasUniqueSolution(grid), which calls
\* countSolutions(grid, 2)
CallHasUniqueSolution ==
    /\ pc = "idle"
    /\ heap' = [heap EXCEPT !.gridCopy = copyGrid(heap.grid)]
    /\ search' = SearchStart("count", "gridCopy", 2)
    /\ pc' = "hasUniqueSolution"
    /\ op' = "hasUniqueSolution"
    /\ before' = heap.grid
    /\ UNCHANGED <<args, ret, gen>>

\* ReturnHasUniqueSolution with "countSolutions(grid, 2) >= 1"
ReturnHasUniqueSolution_atLeastOne ==
    /\ pc = "hasUniqueSolution" /\ SearchDone
    /\ pc' = "returned"
    /\ ret' = (search.solutionCount >= 1)
    /\ search' = [search EXCEPT !.mode = "off"]
    /\ UNCHANGED <<heap, op, args, before, gen>>

\* Solver.hasUniqueSolution returns countSolutions(grid, 2) === 1
ReturnHasUniqueSolution ==
    /\ pc = "hasUniqueSolution" /\ SearchDone
    /\ pc' = "returned"
    /\ ret' = (search.solutionCount = 1)
    /\ search' = [search EXCEPT !.mode = "off"]
    /\ UNCHANGED <<heap, op, args, before, gen>>

\* CallIsSolvable without the validateGrid test
CallIsSolvable_noValidate ==
    /\ pc = "idle"
    /\ op' = "isSolvable"
    /\ before' = heap.grid
    /\ heap' = [heap EXCEPT !.gridCopy = copyGrid(heap.grid)]
    /\ pc' = "isSolvable"
    /\ search' = SearchStart("solve", "gridCopy", 0)
    /\ UNCHANGED <<args, ret, gen>>

\* the caller calls Solver.isSolvable(grid): validateGrid runs on the grid
\* itself, solve on a copy
CallIsSolvable ==
    /\ pc = "idle"
    /\ op' = "isSolvable"
    /\ before' = heap.grid
    /\ LET v == validateGrid(heap.grid)
       IN  IF Len(v.invalidCells) > 0
           THEN /\ heap' = [heap EXCEPT !.grid = v.grid]
                /\ pc' = "returned"
                /\ ret' = FALSE
                /\ search' = SearchOff
           ELSE /\ heap' = [heap EXCEPT !.grid = v.grid, !.gridCopy = copyGrid(v.grid)]
                /\ pc' = "isSolvable"
                /\ ret' = ret
                /\ search' = SearchStart("solve", "gridCopy", 0)
    /\ UNCHANGED <<args, gen>>

ReturnIsSolvable ==
    /\ pc = "isSolvable" /\ SearchDone
    /\ pc' = "returned"
    /\ ret' = search.ok
    /\ search' = SearchOff
    /\ UNCHANGED <<heap, op, args, before, gen>>

\* the caller calls Generator.hasUniqueSolutionFast(grid)
CallHasUniqueSolutionFast ==
    /\ pc = "idle"
    /\ heap' = [heap EXCEPT !.gridCopy = copyGrid(heap.grid)]
    /\ search' = SearchStart("fast", "gridCopy", 0)
    /\ pc' = "hasUniqueSolutionFast"
    /\ op' = "hasUniqueSolutionFast"
    /\ before' = heap.grid
    /\ UNCHANGED <<args, ret, gen>>

ReturnHasUniqueSolutionFast ==
    /\ pc = "hasUniqueSolutionFast" /\ SearchDone
    /\ pc' = "returned"
    /\ ret' = (search.solutionCount = 1)
    /\ search' = [search EXCEPT !.mode = "off"]
    /\ UNCHANGED <<heap, op, args, before, gen>>

\* the caller calls Validator.isValidPlacement(grid, row, col, num)
CallIsValidPlacement ==
    /\ pc = "idle"
    /\ \E row \in 0..8, col \in 0..8, num \in 1..9 :
         /\ ret' = isValidPlacement(heap.grid, row, col, num)
         /\ args' = [row |-> row, col |-> col, num |-> num]
    /\ pc' = "returned"
    /\ op' = "isValidPlacement"
    /\ before' = heap.grid
    /\ UNCHANGED <<heap, search, gen>>

\* the caller calls Validator.validateGrid(grid)
CallValidateGrid ==
    /\ pc = "idle"
    /\ LET v == validateGrid(heap.grid)
       IN  /\ heap' = [heap EXCEPT !.grid = v.grid]
           /\ ret' = v.invalidCells
    /\ pc' = "returned"
    /\ op' = "validateGrid"
    /\ before' = heap.grid
    /\ UNCHANGED <<args, search, gen>>

\* after Solver.hasUniqueSolution(grid) returned true the caller solves a
\* copy of grid, as Play.placeHintInCell does with the original grid.  args
\* keeps the history found of the count.
CallSolveCopy ==
    /\ pc = "returned" /\ op = "hasUniqueSolution" /\ ret = TRUE
    /\ heap' = [heap EXCEPT !.gridCopy = copyGrid(heap.grid)]
    /\ args' = [counted |-> search.found]
    /\ search' = SearchStart("solve", "gridCopy", 0)
    /\ pc' = "solveCopy"
    /\ op' = "solveCopy"
    /\ UNCHANGED <<ret, before, gen>>

ReturnSolveCopy ==
    /\ pc = "solveCopy" /\ SearchDone
    /\ pc' = "returned"
    /\ ret' = search.ok
    /\ search' = SearchOff
    /\ UNCHANGED <<heap, op, args, before, gen>>

\* after a call of Solver.solve the caller calls it once more, on a fresh
\* copy of the grid the first call was given; the grid of the first call
\* stays where it is, and args keeps what the first call returned
CallSolveAgain ==
    /\ pc = "returned" /\ op \in {"solve", "solveCopy"}
    /\ heap' = [heap EXCEPT !.testGrid = copyGrid(before)]
    /\ args' = [first |-> ret, firstGrid |-> IF op = "solve" THEN "grid" ELSE "gridCopy"]
    /\ search' = SearchStart("solve", "testGrid", 0)
    /\ pc' = "solveAgain"
    /\ op' = IF op = "solve" THEN "solveAgain" ELSE "solveCopyAgain"
    /\ UNCHANGED <<ret, before, gen>>

ReturnSolveAgain ==
    /\ pc = "solveAgain" /\ SearchDone
    /\ pc' = "returned"
    /\ ret' = search.ok
    /\ search' = SearchOff
    /\ UNCHANGED <<heap, op, args, before, gen>>

\* the caller calls Validator.isComplete(grid)
CallIsComplete ==
    /\ pc = "idle"
    /\ ret' = isComplete(heap.grid)
    /\ pc' = "returned"
    /\ op' = "isComplete"
    /\ before' = heap.grid
    /\ UNCHANGED <<heap, args, search, gen>>

\* the caller calls Validator.isSolved(grid), which calls validateGrid on a
\* grid that is complete
CallIsSolved ==
    /\ pc = "idle"
    /\ ret' = isSolved(heap.grid)
    /\ heap' = [heap EXCEPT !.grid = IF isComplete(heap.grid)
                                     THEN validateGrid(heap.grid).grid ELSE @]
    /\ pc' = "returned"
    /\ op' = "isSolved"
    /\ before' = heap.grid
    /\ UNCHANGED <<args, search, gen>>

\* the caller calls Validator.getCandidates(grid, row, col)
CallGetCandidates ==
    /\ pc = "idle"
    /\ \E row \in 0..8, col \in 0..8 :
         /\ ret' = getCandidates(heap.grid, row, col)
         /\ args' = [row |-> row, col |-> col]
    /\ pc' = "returned"
    /\ op' = "getCandidates"
    /\ before' = heap.grid
    /\ UNCHANGED <<heap, search, gen>>

\* the caller goes on with the grid the call left behind
Continue ==
    /\ pc = "returned"
    /\ pc' = "idle"
    /\ op' = "none"
    /\ args' = NoArgs
    /\ ret' = FALSE
    /\ before' = heap.grid
    /\ search' = SearchOff
    /\ heap' = HeapOf(heap.grid)
    /\ gen' = gen

SearchStep ==
    \/ solve_call
    \/ solve_resume
    \/ count_call
    \/ count_resume
    \/ fast_call
    \/ fast_resume

\* the Validator called on the input grids
NextValidator ==
    \/ CallIsValidPlacement
    \/ CallValidateGrid
    \/ CallIsComplete
    \/ CallIsSolved
    \/ CallGetCandidates
    \/ Continue

SpecValidator == Init /\ [][NextValidator]_vars

\* the Solver (and the Generator's own uniqueness test) called on the input
\* grids
Next ==
    \/ CallSolve
    \/ ReturnSolve
    \/ CallCountSolutions
    \/ ReturnCountSolutions
    \/ CallHasUniqueSolution
    \/ ReturnHasUniqueSolution
    \/ CallIsSolvable
    \/ ReturnIsSolvable
    \/ CallHasUniqueSolutionFast
    \/ ReturnHasUniqueSolutionFast
    \/ CallSolveCopy
    \/ ReturnSolveCopy
    \/ CallSolveAgain
    \/ ReturnSolveAgain
    \/ Continue
    \/ SearchStep

Spec == Init /\ [][Next]_vars

(***************************************************************************)
(* Generator                                                               *)
(***************************************************************************)
\* maxAttempts of Generator.generate
maxAttempts == 10

\* Math.random() is u / RandomSteps for some u in 0..RandomSteps-1
RandomSteps == 60

Tiers == {"beginner", "easy", "medium", "hard", "expert", "master"}

\* Math.floor(Math.random() * k) for the outcome u of Math.random()
randomBelow(k, u) == (u * k) \div RandomSteps

\* getCluesCount with "Math.random() * 6" in the case 'hard'
getCluesCount_hardSix(difficulty, u) ==
    CASE difficulty = "beginner" -> 46 + randomBelow(5, u)
      [] difficulty = "easy"     -> 40 + randomBelow(5, u)
      [] difficulty = "medium"   -> 32 + randomBelow(6, u)
      [] difficulty = "hard"     -> 28 + randomBelow(6, u)
      [] difficulty = "expert"   -> 22 + randomBelow(5, u)
      [] difficulty = "master"   -> 18 + randomBelow(4, u)
      [] OTHER                   -> 35

\* Generator.getCluesCount for the outcome u of Math.random()
getCluesCount(difficulty, u) ==
    CASE difficulty = "beginner" -> 46 + randomBelow(5, u)
      [] difficulty = "easy"     -> 40 + randomBelow(5, u)
      [] difficulty = "medium"   -> 32 + randomBelow(6, u)
      [] difficulty = "hard"     -> 28 + randomBelow(4, u)
      [] difficulty = "expert"   -> 22 + randomBelow(5, u)
      [] difficulty = "master"   -> 18 + randomBelow(4, u)
      [] OTHER                   -> 35

\* Generator.fillBox, numbers being the outcome of its shuffle
fillBox(g, startRow, startCol, numbers) ==
    [r \in 0..8 |-> [c \in 0..8 |->
        IF r \in startRow..(startRow + 2) /\ c \in startCol..(startCol + 2)
        THEN numbers[(r - startRow) * 3 + (c - startCol) + 1]
        ELSE g[r][c]]]

\* fillDiagonalBoxes with startCol 0 for every box
fillDiagonalBoxes_firstColumn(g, shuffles) ==
    fillBox(fillBox(fillBox(g, 0, 0, shuffles[1]), 3, 0, shuffles[2]), 6, 0, shuffles[3])

\* Generator.fillDiagonalBoxes, shuffles[box] being the outcome of the
\* shuffle of box
fillDiagonalBoxes(g, shuffles) ==
    fillBox(fillBox(fillBox(g, 0, 0, shuffles[1]), 3, 3, shuffles[2]), 6, 6, shuffles[3])

Ascending == <<1, 2, 3, 4, 5, 6, 7, 8, 9>>
Descending == <<9, 8, 7, 6, 5, 4, 3, 2, 1>>

\* the outcomes of the three box shuffles that generate is run with
GenBoxShuffles == {<<Ascending, Descending, Ascending>>}

\* the outcomes of Math.random() that getCluesCount is run with: the least
\* and the greatest
GenRandoms == {0, RandomSteps - 1}

\* the positions 0, s, 2s, ... (mod 81), a permutation of 0..80 when 3 does
\* not divide s
Stride(s) == [i \in 1..81 |-> ((i - 1) * s) % 81]

\* the outcomes of shuffle(positions) that removeNumbers is run with
PositionShuffles == {Stride(26), Stride(80)}

\* the tiers for which removeNumbers tests every removal
testsRemoval(difficulty) == difficulty = "hard" \/ difficulty = "expert"

GenStart(difficulty) ==
    [difficulty |-> difficulty, attempt |-> 0, fallback |-> FALSE, runs |-> 0,
     cluesCount |-> 0, cellsToRemove |-> 0, positions |-> <<>>, idx |-> 0,
     removed |-> 0, row |-> 0, col |-> 0, backup |-> 0,
     lastFailed |-> Empty]

\* a caller has called Generator.generate(difficulty)
InitGen ==
    /\ heap = HeapOf(Empty)
    /\ pc = "generate"
    /\ op = "generate"
    /\ args = NoArgs
    /\ ret = FALSE
    /\ before = Empty
    /\ search = SearchOff
    /\ gen \in {GenStart(d) : d \in Tiers}

\* Generator.generateSolvedGrid up to its call of Solver.solve
generateSolvedGrid_call ==
    /\ \E shuffles \in GenBoxShuffles :
         heap' = [HeapOf(Empty) EXCEPT !.solvedGrid = fillDiagonalBoxes(Empty, shuffles)]
    /\ search' = SearchStart("solve", "solvedGrid", 0)
    /\ pc' = "generateSolvedGrid"

generate_attempt_offByOne ==
    /\ pc = "generate" /\ gen.attempt <= maxAttempts
    /\ generateSolvedGrid_call
    /\ gen' = [gen EXCEPT !.runs = @ + 1]
    /\ UNCHANGED <<op, args, ret, before>>

\* Generator.generate, the loop head: one more attempt.  runs is a history
\* value: the calls of generateSolvedGrid so far.
generate_attempt ==
    /\ pc = "generate" /\ gen.attempt < maxAttempts
    /\ generateSolvedGrid_call
    /\ gen' = [gen EXCEPT !.runs = @ + 1]
    /\ UNCHANGED <<op, args, ret, before>>

\* Generator.generate, after the loop: the fallback
generate_fallback ==
    /\ pc = "generate" /\ ~(gen.attempt < maxAttempts)
    /\ generateSolvedGrid_call
    /\ gen' = [gen EXCEPT !.runs = @ + 1, !.fallback = TRUE]
    /\ UNCHANGED <<op, args, ret, before>>

\* generateSolvedGrid returns (the result of solve is not looked at) and
\* Generator.removeNumbers runs up to its loop
removeNumbers_call ==
    /\ pc = "generateSolvedGrid" /\ SearchDone
    /\ heap' = [heap EXCEPT !.puzzle = copyGrid(heap.solvedGrid)]
    /\ \E u \in GenRandoms, positions \in PositionShuffles :
         gen' = [gen EXCEPT !.cluesCount = getCluesCount(gen.difficulty, u),
                            !.cellsToRemove = 81 - getCluesCount(gen.difficulty, u),
                            !.positions = positions,
                            !.idx = 1, !.removed = 0]
    /\ pc' = "removeNumbers"
    /\ search' = SearchOff
    /\ UNCHANGED <<op, args, ret, before>>

\* removeNumbers_step with puzzle being solvedGrid itself, no copy made: the
\* writes to puzzle are writes to solvedGrid
removeNumbers_step_noCopy ==
    /\ pc = "removeNumbers"
    /\ gen.idx <= 81 /\ ~(gen.removed >= gen.cellsToRemove)
    /\ LET pos == gen.positions[gen.idx]
           row == getRowCol(pos).row
           col == getRowCol(pos).col
           backup == heap.puzzle[row][col]
           puzzle == [heap.puzzle EXCEPT ![row][col] = 0]
       IN  IF testsRemoval(gen.difficulty)
           THEN /\ heap' = [heap EXCEPT !.puzzle = puzzle,
                                        !.solvedGrid = puzzle,
                                        !.testGrid = copyGrid(puzzle),
                                        !.gridCopy = copyGrid(copyGrid(puzzle))]
                /\ gen' = [gen EXCEPT !.row = row, !.col = col, !.backup = backup]
                /\ search' = SearchStart("fast", "gridCopy", 0)
                /\ pc' = "removeNumbers:test"
           ELSE /\ heap' = [heap EXCEPT !.puzzle = puzzle, !.solvedGrid = puzzle]
                /\ gen' = [gen EXCEPT !.row = row, !.col = col, !.backup = backup,
                                      !.removed = @ + 1, !.idx = @ + 1]
                /\ search' = search
                /\ pc' = pc
    /\ UNCHANGED <<op, args, ret, before>>

\* removeNumbers_step with the loop left on "removed > cellsToRemove"
removeNumbers_step_breakLate ==
    /\ pc = "removeNumbers"
    /\ gen.idx <= 81 /\ ~(gen.removed > gen.cellsToRemove)
    /\ LET pos == gen.positions[gen.idx]
           row == getRowCol(pos).row
           col == getRowCol(pos).col
           backup == heap.puzzle[row][col]
           puzzle == [heap.puzzle EXCEPT ![row][col] = 0]
       IN  IF testsRemoval(gen.difficulty)
           THEN /\ heap' = [heap EXCEPT !.puzzle = puzzle,
                                        !.testGrid = copyGrid(puzzle),
                                        !.gridCopy = copyGrid(copyGrid(puzzle))]
                /\ gen' = [gen EXCEPT !.row = row, !.col = col, !.backup = backup]
                /\ search' = SearchStart("fast", "gridCopy", 0)
                /\ pc' = "removeNumbers:test"
           ELSE /\ heap' = [heap EXCEPT !.puzzle = puzzle]
                /\ gen' = [gen EXCEPT !.row = row, !.col = col, !.backup = backup,
                                      !.removed = @ + 1, !.idx = @ + 1]
                /\ search' = search
                /\ pc' = pc
    /\ UNCHANGED <<op, args, ret, before>>

\* Generator.removeNumbers, one iteration of its loop: to its end for the
\* tiers without a test, to the call of hasUniqueSolutionFast for the others
removeNumbers_step ==
    /\ pc = "removeNumbers"
    /\ gen.idx <= 81 /\ ~(gen.removed >= gen.cellsToRemove)
    /\ LET pos == gen.positions[gen.idx]
           row == getRowCol(pos).row
           col == getRowCol(pos).col
           backup == heap.puzzle[row][col]
           puzzle == [heap.puzzle EXCEPT ![row][col] = 0]
       IN  IF testsRemoval(gen.difficulty)
           THEN /\ heap' = [heap EXCEPT !.puzzle = puzzle,
                                        !.testGrid = copyGrid(puzzle),
                                        !.gridCopy = copyGrid(copyGrid(puzzle))]
                /\ gen' = [gen EXCEPT !.row = row, !.col = col, !.backup = backup]
                /\ search' = SearchStart("fast", "gridCopy", 0)
                /\ pc' = "removeNumbers:test"
           ELSE /\ heap' = [heap EXCEPT !.puzzle = puzzle]
                /\ gen' = [gen EXCEPT !.row = row, !.col = col, !.backup = backup,
                                      !.removed = @ + 1, !.idx = @ + 1]
                /\ search' = search
                /\ pc' = pc
    /\ UNCHANGED <<op, args, ret, before>>

\* removeNumbers_tested going back to the same position after a rejected
\* removal
removeNumbers_tested_noAdvance ==
    /\ pc = "removeNumbers:test" /\ SearchDone
    /\ IF ~(search.solutionCount = 1)
       THEN /\ heap' = [heap EXCEPT !.puzzle[gen.row][gen.col] = gen.backup]
            /\ gen' = gen
       ELSE /\ heap' = heap
            /\ gen' = [gen EXCEPT !.removed = @ + 1, !.idx = @ + 1]
    /\ search' = SearchOff
    /\ pc' = "removeNumbers"
    /\ UNCHANGED <<op, args, ret, before>>

\* Generator.removeNumbers, hasUniqueSolutionFast(testGrid) has returned: put
\* the digit back, or count the removal
removeNumbers_tested ==
    /\ pc = "removeNumbers:test" /\ SearchDone
    /\ IF ~(search.solutionCount = 1)
       THEN /\ heap' = [heap EXCEPT !.puzzle[gen.row][gen.col] = gen.backup]
            /\ gen' = [gen EXCEPT !.idx = @ + 1]
       ELSE /\ heap' = heap
            /\ gen' = [gen EXCEPT !.removed = @ + 1, !.idx = @ + 1]
    /\ search' = SearchOff
    /\ pc' = "removeNumbers"
    /\ UNCHANGED <<op, args, ret, before>>

\* Generator.removeNumbers leaves its loop and returns puzzle
removeNumbers_return ==
    /\ pc = "removeNumbers"
    /\ ~(gen.idx <= 81) \/ gen.removed >= gen.cellsToRemove
    /\ pc' = "removeNumbers:returned"
    /\ UNCHANGED <<heap, op, args, ret, before, search, gen>>

\* Generator.generate calls Solver.hasUniqueSolution(puzzle)
generate_check ==
    /\ pc = "removeNumbers:returned" /\ ~gen.fallback
    /\ heap' = [heap EXCEPT !.gridCopy = copyGrid(heap.puzzle)]
    /\ search' = SearchStart("count", "gridCopy", 2)
    /\ pc' = "generate:check"
    /\ UNCHANGED <<op, args, ret, before, gen>>

\* Generator.generate, hasUniqueSolution(puzzle) has returned: return puzzle,
\* or go to the next attempt.  lastFailed is a history value: the puzzle of
\* the attempt that ended the loop.
generate_checked ==
    /\ pc = "generate:check" /\ SearchDone
    /\ IF search.solutionCount = 1
       THEN /\ pc' = "returned"
            /\ ret' = heap.puzzle
            /\ gen' = gen
            /\ heap' = heap
            /\ search' = [search EXCEPT !.mode = "off"]
       ELSE /\ pc' = "generate"
            /\ ret' = ret
            /\ gen' = [gen EXCEPT !.attempt = @ + 1,
                                  !.lastFailed = IF gen.attempt + 1 < maxAttempts
                                                 THEN @ ELSE heap.puzzle]
            /\ heap' = HeapOf(Empty)
            /\ search' = SearchOff
    /\ UNCHANGED <<op, args, before>>

\* Generator.generate returns the puzzle of the fallback
generate_return_fallback ==
    /\ pc = "removeNumbers:returned" /\ gen.fallback
    /\ pc' = "returned"
    /\ ret' = heap.puzzle
    /\ UNCHANGED <<heap, op, args, before, search, gen>>

NextGen ==
    \/ generate_attempt
    \/ generate_fallback
    \/ removeNumbers_call
    \/ removeNumbers_step
    \/ removeNumbers_tested
    \/ removeNumbers_return
    \/ generate_check
    \/ generate_checked
    \/ generate_return_fallback
    \/ SearchStep

SpecGen == InitGen /\ [][NextGen]_vars

(***************************************************************************)
(* Generator.generateSolvedGrid called on its own                          *)
(***************************************************************************)
\* the Fisher-Yates shuffles explored take, at step i, j = (i * k) % (i + 1)
\* for a k in 0..MaxSwapSeed
MaxSwapSeed == 3

\* [array[i], array[j]] = [array[j], array[i]], i and j counted from 0
swap(array, i, j) ==
    [array EXCEPT ![i + 1] = array[j + 1], ![j + 1] = array[i + 1]]

\* Generator.shuffle, the loop from i down to 1; js[i] is the outcome of
\* Math.floor(Math.random() * (i + 1)), a number of 0..i
RECURSIVE shuffleFrom(_, _, _)
shuffleFrom(array, i, js) ==
    IF ~(i > 0) THEN array
    ELSE shuffleFrom(swap(array, i, js[i]), i - 1, js)

\* Generator.shuffle
shuffle(array, js) == shuffleFrom(array, Len(array) - 1, js)

\* the outcomes js of the random draws of one shuffle of 9 elements
SeedSwaps == {[i \in 1..8 |-> (i * k) % (i + 1)] : k \in 0..MaxSwapSeed}

InitSeed ==
    /\ heap = HeapOf(Empty)
    /\ pc = "idle"
    /\ op = "none"
    /\ args = NoArgs
    /\ ret = FALSE
    /\ before = Empty
    /\ search = SearchOff
    /\ gen = GenOff

\* the caller calls Generator.generateSolvedGrid(): the grid of zeros is
\* made, fillDiagonalBoxes fills it and Solver.solve is called on it.  args
\* keeps the outcomes of the three shuffles.
CallGenerateSolvedGrid ==
    /\ pc = "idle"
    /\ \E js1 \in SeedSwaps, js2 \in SeedSwaps, js3 \in SeedSwaps :
         LET shuffles == <<shuffle(Ascending, js1), shuffle(Ascending, js2),
                           shuffle(Ascending, js3)>>
         IN  /\ heap' = [heap EXCEPT !.solvedGrid = fillDiagonalBoxes(Empty, shuffles)]
             /\ args' = [shuffles |-> shuffles]
    /\ search' = SearchStart("solve", "solvedGrid", 0)
    /\ pc' = "generateSolvedGrid"
    /\ op' = "generateSolvedGrid"
    /\ UNCHANGED <<ret, before, gen>>

\* generateSolvedGrid returns grid, whatever solve returned; search keeps
\* what solve returned
ReturnGenerateSolvedGrid ==
    /\ pc = "generateSolvedGrid" /\ op = "generateSolvedGrid" /\ SearchDone
    /\ pc' = "returned"
    /\ ret' = heap.solvedGrid
    /\ search' = [search EXCEPT !.mode = "off"]
    /\ UNCHANGED <<heap, op, args, before, gen>>

\* the caller, holding the grid generateSolvedGrid returned when it satisfies
\* isSolved, sets one cell of it to 0 and calls Validator.getCandidates on
\* that cell; before keeps the grid as it was and args the digit removed
CallClearAndGetCandidates ==
    /\ pc = "returned" /\ op = "generateSolvedGrid" /\ isSolved(heap.solvedGrid)
    /\ \E row \in 0..8, col \in 0..8 :
         LET cleared == [heap.solvedGrid EXCEPT ![row][col] = 0]
         IN  /\ heap' = [heap EXCEPT !.solvedGrid = cleared]
             /\ ret' = getCandidates(cleared, row, col)
             /\ args' = [row |-> row, col |-> col,
                         removed |-> heap.solvedGrid[row][col]]
    /\ before' = heap.solvedGrid
    /\ op' = "clearAndGetCandidates"
    /\ search' = SearchOff
    /\ UNCHANGED <<pc, gen>>

NextSeed ==
    \/ CallGenerateSolvedGrid
    \/ ReturnGenerateSolvedGrid
    \/ CallClearAndGetCandidates
    \/ solve_call
    \/ solve_resume

SpecSeed == InitSeed /\ [][NextSeed]_vars

(***************************************************************************)
(* The Sudoku rules, stated on a grid without reference to the code        *)
(***************************************************************************)
\* two different cells that share a row, a column or a 3x3 box
SameUnit(r1, c1, r2, c2) ==
    /\ <<r1, c1>> # <<r2, c2>>
    /\ \/ r1 = r2
       \/ c1 = c2
       \/ (r1 \div 3 = r2 \div 3 /\ c1 \div 3 = c2 \div 3)

\* some cell other than (row, col), in a unit of (row, col), holds num
HeldByPeer(g, row, col, num) ==
    \E r \in 0..8, c \in 0..8 : SameUnit(row, col, r, c) /\ g[r][c] = num

\* no two filled cells of g break a rule
NoConflict(g) ==
    \A r \in 0..8, c \in 0..8 : g[r][c] # 0 => ~HeldByPeer(g, r, c, g[r][c])

Complete(g) == \A r \in 0..8, c \in 0..8 : g[r][c] # 0

\* h fills the empty cells of g and keeps the others
Extends(h, g) == \A r \in 0..8, c \in 0..8 : g[r][c] # 0 => h[r][c] = g[r][c]

\* h is a rule-valid completion of g
Completion(h, g) == Complete(h) /\ NoConflict(h) /\ Extends(h, g)

\* all rule-valid completions of g, by filling the last empty cell first
RECURSIVE Completions(_)
Completions(g) ==
    IF ~NoConflict(g) THEN {}
    ELSE LET empties == {i \in 0..80 : g[i \div 9][i % 9] = 0}
         IN  IF empties = {} THEN {g}
             ELSE LET i == CHOOSE i \in empties : \A j \in empties : j <= i
                  IN  UNION {Completions([g EXCEPT ![i \div 9][i % 9] = d]) : d \in 1..9}

Range(f) == {f[i] : i \in DOMAIN f}

\* fs lists n different rule-valid completions of g
Lists(fs, n, g) ==
    /\ Len(fs) = n
    /\ Cardinality(Range(fs)) = n
    /\ \A i \in 1..n : Completion(fs[i], g)

\* g has at least n rule-valid completions: fs lists them, or the
\* enumeration finds them
AtLeast(g, n, fs) == IF Lists(fs, n, g) THEN TRUE ELSE Cardinality(Completions(g)) >= n

\* g has exactly n rule-valid completions
Exactly(g, n) == Cardinality(Completions(g)) = n

\* the call named name has returned
Returned(name) == pc = "returned" /\ op = name

(***************************************************************************)
(* Claims                                                                  *)
(***************************************************************************)
\* C1: on every input grid that has a rule-valid completion, Solver.solve
\* returns true and leaves a grid that satisfies Validator.isSolved: no cell
\* is 0 and no row, column or box holds a digit twice.
C1_SolveSolvesSolvable ==
    Returned("solve") =>
        \/ ret = TRUE /\ isSolved(heap.grid) /\ Complete(heap.grid) /\ NoConflict(heap.grid)
        \/ ~AtLeast(before, 1, <<Solved>>)

\* C1 witness: solve has returned from the all-zero grid, which is solvable
C1_Witness ==
    Returned("solve") /\ before = Empty /\ ret = TRUE /\ isSolved(heap.grid)

\* C2: on every input grid whose filled cells are conflict-free, Solver.solve
\* returns true if and only if the grid has a rule-valid completion.
C2_SolveExhaustive ==
    (Returned("solve") /\ NoConflict(before)) =>
        (ret = TRUE <=> AtLeast(before, 1, <<heap.grid>>))

\* C2 witness: solve has returned false on a conflict-free grid
C2_Witness ==
    Returned("solve") /\ NoConflict(before) /\ ret = FALSE /\ ~Complete(before)

\* C3: whenever Solver.solve returns false, every cell of the grid holds the
\* value it held when solve was called.
C3_SolveFalseRestores ==
    (Returned("solve") /\ ret = FALSE) => heap.grid = before

\* C3 witness: solve has returned false on a grid whose first empty cell
\* admits a digit, so a placement was made and taken back
C3_Witness ==
    /\ Returned("solve") /\ ret = FALSE
    /\ LET e == findEmptyCell(before)
       IN  e # <<>> /\ validFrom(before, e[1], e[2], 1) # {}

\* the value countSolutions must return on grid g for the bound m: min(N, m),
\* N the number of rule-valid completions of g, given the completions fs
\* already known
IsMinOfCount(n, g, m, fs) ==
    IF n = m THEN AtLeast(g, m, fs)
    ELSE n < m /\ Exactly(g, n)

C6_CountKeepsCallerGrid ==
    (op \in {"countSolutions", "hasUniqueSolution"}) => heap.grid = before

\* C6 witness: countSolutions has left by its early exit after placing digits
C6_Witness ==
    /\ Returned("countSolutions")
    /\ args.maxCount >= 1 /\ ret = args.maxCount
    /\ emptyCount(before) >= 2

\* C7: Validator.isValidPlacement(grid, row, col, num) is true if and only if
\* no cell other than (row, col) in the same row, column or 3x3 box holds
\* num; the value at (row, col) itself is ignored.
C7_ValidPlacementIffNoPeer ==
    Returned("isValidPlacement") =>
        (ret = TRUE <=> ~HeldByPeer(before, args.row, args.col, args.num))

\* C7 witness: isValidPlacement has returned false for a digit held in the
\* box, and neither in the row nor in the column, of the cell
C7_Witness ==
    /\ Returned("isValidPlacement") /\ ret = FALSE
    /\ \A i \in 0..8 : /\ (i # args.col => before[args.row][i] # args.num)
                        /\ (i # args.row => before[i][args.col] # args.num)

\* the occupied cells of g whose digit is held by a peer, as linear indices
Conflicted(g) ==
    {r * 9 + c : <<r, c>> \in
        {rc \in (0..8) \X (0..8) :
            g[rc[1]][rc[2]] # 0 /\ HeldByPeer(g, rc[1], rc[2], g[rc[1]][rc[2]])}}

\* C8: Validator.validateGrid returns exactly the occupied cells whose digit
\* also appears in another cell of the same row, column or box, as linear
\* indices row*9+col; an empty result means no two filled cells break a rule.
C8_ValidateGridIsConflicted ==
    Returned("validateGrid") =>
        /\ Range(ret) = Conflicted(before)
        /\ Len(ret) = Cardinality(Conflicted(before))
        /\ ret = <<>> => NoConflict(before)

\* C8 witness: validateGrid has returned a non-empty list that leaves out
\* some occupied cell
C8_Witness ==
    /\ Returned("validateGrid") /\ Len(ret) >= 2
    /\ \E r \in 0..8, c \in 0..8 : before[r][c] # 0 /\ r * 9 + c \notin Range(ret)

\* C9 as claimed: for each of the tiers hard, expert and master the puzzle
\* that Generator.removeNumbers returns has exactly one rule-valid completion
\* (looked at when the search that generate runs on a copy of it has ended
\* and lists the completions it met).
C9_HarderTiersReturnUnique ==
    (/\ gen.difficulty \in {"hard", "expert", "master"}
     /\ pc = "generate:check" /\ SearchDone) =>
        /\ ~Lists(search.found, 2, heap.puzzle)
        /\ Exactly(heap.puzzle, 1)

\* C10 as claimed: Generator.generate runs generateSolvedGrid and
\* removeNumbers at most 10 times and returns the puzzle of the first attempt
\* that passes Solver.hasUniqueSolution or, when every attempt fails, the
\* puzzle of the last attempt.
C10_AtMostTenRuns ==
    /\ gen.runs <= maxAttempts
    /\ Returned("generate") =>
          IF search.mode = "off" /\ search.solutionCount = 1
          THEN ret = heap.puzzle /\ gen.runs = gen.attempt + 1
          ELSE gen.attempt = maxAttempts /\ ret = gen.lastFailed

\* C10 amended: generate runs generateSolvedGrid and removeNumbers at most
\* 11 times: at most 10 attempts whose puzzle is put to
\* Solver.hasUniqueSolution and, when all 10 fail, one more run whose puzzle
\* is not tested.  It returns the puzzle of the first attempt that passes
\* the test or, when all 10 fail, the puzzle of the eleventh run.
C10_AtMostElevenRuns ==
    /\ gen.runs <= maxAttempts + 1
    /\ gen.attempt <= maxAttempts
    /\ Returned("generate") =>
          /\ ret = heap.puzzle
          /\ IF gen.fallback
             THEN gen.attempt = maxAttempts /\ gen.runs = maxAttempts + 1
             ELSE /\ gen.attempt < maxAttempts /\ gen.runs = gen.attempt + 1
                  /\ search.kind = "count" /\ search.maxCount = 2
                  /\ search.solutionCount = 1
                  /\ Lists(search.found, 1, ret)

\* C10 witness: all 10 attempts failed and generate has returned the puzzle
\* of the eleventh run, which is not the puzzle of the tenth attempt
C10_Witness ==
    /\ Returned("generate") /\ gen.fallback
    /\ gen.runs = maxAttempts + 1 /\ ret # gen.lastFailed

\* the number of filled cells of g
filledCount(g) == Cardinality({i \in 0..80 : g[i \div 9][i % 9] # 0})

\* the clue counts getCluesCount can return for a tier
ClueRange(difficulty) ==
    getCluesCount(difficulty, 0)..getCluesCount(difficulty, RandomSteps - 1)

\* C11 as claimed: when Generator.generate(T) returns a puzzle that passed
\* Solver.hasUniqueSolution (no fallback), the number of filled cells of the
\* returned grid is in the clue range of T, and the grid is solvable: no
\* filled cell is in conflict and a rule-valid completion exists.
C11_CluesInRangeAndSolvable ==
    (Returned("generate") /\ ~gen.fallback) =>
        /\ filledCount(ret) \in ClueRange(gen.difficulty)
        /\ NoConflict(ret)
        /\ AtLeast(ret, 1, search.found)

\* g is a 9x9 array of cells in 0..9
IsGrid(g) ==
    /\ DOMAIN g = 0..8
    /\ \A r \in 0..8 : DOMAIN g[r] = 0..8 /\ \A c \in 0..8 : g[r][c] \in 0..9

\* the place a recursive search has reached is a sequence that grows in the
\* dictionary order with every step of a depth-first search: per frame the
\* digit tried (the number of digits tried, when the order is shuffled), then
\* 0 for an invocation about to run and 10 for one that has returned.
\* KeyAt(s, i) is its i-th element, for i in 1..Len(s.stack) + 1.
KeyAt(s, i) ==
    IF i <= Len(s.stack)
    THEN IF s.kind = "fast" THEN Cardinality(s.stack[i].tried) ELSE s.stack[i].num
    ELSE IF s.mode = "call" THEN 0 ELSE 10

\* the search s is at an earlier place than the search t
SearchLess(s, t) ==
    \E i \in 1..(Len(s.stack) + 1) :
        /\ i <= Len(t.stack) + 1
        /\ KeyAt(s, i) < KeyAt(t, i)
        /\ \A j \in 1..(i - 1) : KeyAt(s, j) = KeyAt(t, j)

\* the place generate has reached outside the searches
Stage(p) ==
    CASE p = "generate" -> 0
      [] p = "generateSolvedGrid" -> 1
      [] p = "removeNumbers" -> 2
      [] p = "removeNumbers:test" -> 2
      [] p = "removeNumbers:returned" -> 3
      [] p = "generate:check" -> 4
      [] OTHER -> 5

GenKey(p, gn) ==
    <<gn.attempt, gn.runs, Stage(p), gn.idx, IF p = "removeNumbers:test" THEN 1 ELSE 0>>

\* a comes before b in the dictionary order, a and b of the same length
LexLess(a, b) ==
    \E i \in 1..Len(a) : a[i] < b[i] /\ \A j \in 1..(i - 1) : a[j] = b[j]

\* the step moves generate forward
Advances ==
    \/ LexLess(GenKey(pc, gen), GenKey(pc', gen'))
    \/ GenKey(pc, gen) = GenKey(pc', gen') /\ SearchLess(search, search')

\* the order Advances moves in has no infinite ascent
KeysBounded ==
    /\ gen.attempt \in 0..maxAttempts /\ gen.runs \in 0..(maxAttempts + 1)
    /\ gen.idx \in 0..82
    /\ Len(search.stack) <= 81
    /\ \A i \in 1..(Len(search.stack) + 1) : KeyAt(search, i) \in 0..10

\* a search is under way: an invocation is about to run, or one has returned
\* to an invocation that called it (the search steps ask for nothing else)
SearchUnderWay ==
    /\ search.kind \in {"solve", "count", "fast"}
    /\ search.mode = "call" \/ (search.mode = "ret" /\ search.stack # <<>>)

\* C12: for every tier and every outcome of the random choices
\* Generator.generate comes to its return, and what it returns is a 9x9 grid
\* with every cell in 0..9, also when no attempt passed the uniqueness test:
\* every step moves generate forward in a bounded order, no state short of
\* the return is without a next step, and on return ret is such a grid.
C12_GenerateReturnsGrid ==
    /\ [][Advances]_vars
    /\ [](KeysBounded)
    /\ [](~Returned("generate") =>
            \/ SearchUnderWay
            \/ ENABLED (\/ generate_attempt \/ generate_fallback
                        \/ removeNumbers_call \/ removeNumbers_step
                        \/ removeNumbers_tested \/ removeNumbers_return
                        \/ generate_check \/ generate_checked
                        \/ generate_return_fallback))
    /\ [](Returned("generate") => IsGrid(ret))

\* C12 witness: all attempts failed the test and generate has returned a grid
C12_Witness ==
    /\ Returned("generate") /\ gen.fallback /\ gen.attempt = maxAttempts
    /\ IsGrid(ret) /\ filledCount(ret) = gen.cluesCount

\* the cells of the 3x3 box of g that starts at (startRow, startCol)
BoxDigits(g, startRow, startCol) ==
    {g[startRow + i][startCol + j] : i \in 0..2, j \in 0..2}

\* C13: for every outcome of the three box shuffles, the grid that
\* fillDiagonalBoxes hands to Solver.solve has a permutation of 1..9 in each
\* diagonal box, zeros elsewhere and no conflict; solve returns true on it;
\* and the grid generateSolvedGrid returns keeps the three boxes, has no
\* empty cell and no conflict, and satisfies Validator.isSolved.
C13_SolvedGridIsSolved ==
    Returned("generateSolvedGrid") =>
        LET seeded == [r \in 0..8 |-> [c \in 0..8 |->
                          IF r \div 3 = c \div 3 THEN ret[r][c] ELSE 0]]
        IN  /\ \A b \in 0..2 : BoxDigits(seeded, 3 * b, 3 * b) = 1..9
            /\ \A b \in 0..2 :
                 \A i \in 0..8 : seeded[3 * b + (i \div 3)][3 * b + (i % 3)] =
                       args.shuffles[b + 1][i + 1]
            /\ NoConflict(seeded)
            /\ search.ok
            /\ Complete(ret) /\ NoConflict(ret)
            /\ isSolved(ret)

\* C13 witness: generateSolvedGrid has returned a solved grid whose three
\* diagonal boxes come from three different shuffle outcomes
C13_Witness ==
    /\ Returned("generateSolvedGrid") /\ isSolved(ret)
    /\ Cardinality({args.shuffles[1], args.shuffles[2], args.shuffles[3]}) = 3
    /\ ret[0][0] # 1

C15_UniqueThenSolveReproduces ==
    /\ Returned("solveCopy") =>
          /\ ret = TRUE
          /\ Len(args.counted) = 1 /\ heap.gridCopy = args.counted[1]
          /\ NoConflict(before) => Completion(heap.gridCopy, before)
          /\ heap.grid = before
    /\ Returned("solveCopyAgain") =>
          ret = TRUE /\ args.first = TRUE /\ heap.testGrid = heap.gridCopy

\* C15 witness: the repeated call has returned on a grid with empty cells
\* and one completion
C15_Witness ==
    /\ Returned("solveCopyAgain") /\ ~Complete(before)
    /\ ret = TRUE /\ heap.testGrid = heap.gridCopy /\ Complete(heap.testGrid)

\* C16: Solver.isSolvable(grid) returns true if and only if
\* Validator.validateGrid(grid) is empty (no filled cell is in conflict) and
\* the grid has a rule-valid completion; after the call, whatever it
\* returned, every cell of the caller's grid holds the value it held before.
C16_IsSolvableIffValidAndCompletable ==
    Returned("isSolvable") =>
        /\ heap.grid = before
        /\ IF ~NoConflict(before)
           THEN Len(validateGrid(before).invalidCells) > 0 /\ ret = FALSE
           ELSE /\ Len(validateGrid(before).invalidCells) = 0
                /\ ret = TRUE <=> AtLeast(before, 1, <<heap.gridCopy>>)

\* C16 witness: isSolvable has returned true on a grid with empty cells; the
\* copy holds the completion and the caller's grid still has its empty cells
C16_Witness ==
    /\ Returned("isSolvable") /\ ret = TRUE
    /\ ~Complete(before) /\ heap.grid = before /\ Complete(heap.gridCopy)

\* C17: after Validator.validateGrid, isComplete, isSolved and getCandidates
\* return, every cell of the grid they were given equals its value before
\* the call.
C17_ValidatorKeepsGrid ==
    (pc = "returned" /\ op \in {"validateGrid", "isComplete", "isSolved", "getCandidates"}) =>
        heap.grid = before

\* C17 witness: validateGrid has returned a non-empty list, so it wrote 0
\* into occupied cells and put their digits back, and the grid is as before
C17_Witness ==
    /\ Returned("validateGrid") /\ Len(ret) >= 2
    /\ heap.grid = before /\ \E r \in 0..8, c \in 0..8 : before[r][c] # 0

\* the elements of a set of numbers in ascending order
Ascend(S) ==
    [i \in 1..Cardinality(S) |->
        CHOOSE n \in S : Cardinality({m \in S : m < n}) = i - 1]

\* C18: Validator.getCandidates(grid, row, col) returns, for a cell holding
\* 0, the digits of 1..9 that no peer of the cell holds (those for which
\* isValidPlacement is true), in ascending order, and the empty list for a
\* cell holding a digit.
C18_CandidatesAreValidDigits ==
    Returned("getCandidates") =>
        IF before[args.row][args.col] # 0 THEN ret = <<>>
        ELSE /\ ret = Ascend({n \in 1..9 : ~HeldByPeer(before, args.row, args.col, n)})
             /\ \A n \in 1..9 :
                  n \in Range(ret) <=> isValidPlacement(before, args.row, args.col, n)

\* C18 witness: getCandidates has returned several digits for an empty cell
\* and not all of them
C18_Witness ==
    /\ Returned("getCandidates") /\ before[args.row][args.col] = 0
    /\ Len(ret) \in 2..8

\* C19: on a grid that satisfies isSolved, after one cell is set to 0,
\* Validator.getCandidates on that cell returns the list holding exactly the
\* digit that was removed.
C19_ClearedCellHasOneCandidate ==
    Returned("clearAndGetCandidates") =>
        /\ isSolved(before) /\ Complete(before) /\ NoConflict(before)
        /\ ret = <<args.removed>>

\* C19 witness: the call has returned for a cell outside the diagonal boxes
\* of a solved grid, with the digit 9 removed
C19_Witness ==
    /\ Returned("clearAndGetCandidates") /\ isSolved(before)
    /\ args.row = 4 /\ args.col = 7 /\ args.removed = 9 /\ ret = <<9>>

\* C20: when Solver.solve is called on a grid that is completely filled and
\* rule-valid, no invocation is ever nested in the first one and no cell is
\* written while the call runs, it returns true, and Validator.isSolved is
\* true for the grid.
C20_SolveOnSolvedGrid ==
    (op = "solve" /\ Complete(before) /\ NoConflict(before)) =>
        /\ heap.grid = before
        /\ search.stack = <<>>
        /\ pc = "returned" => (ret = TRUE /\ isSolved(heap.grid))

\* C20 witness: solve has returned true on a complete, rule-valid grid
C20_Witness ==
    /\ Returned("solve") /\ Complete(before) /\ NoConflict(before)
    /\ ret = TRUE /\ heap.grid = before

(***************************************************************************)
(* Solver.hasUniqueSolution called on grids of at most 16 filled cells     *)
(***************************************************************************)
\* the first k cells (row-major) of g, the others empty
FirstCells(g, k) == ClearLast(g, 81 - k)

\* g with the cell of index i (row-major) set to v
SetCell(g, i, v) == [g EXCEPT ![i \div 9][i % 9] = v]

\* a grid of 17 filled cells that has exactly one rule-valid completion
SeventeenRows ==
    << <<0,0,0,0,0,0,0,1,0>>, <<4,0,0,0,0,0,0,0,0>>, <<0,2,0,0,0,0,0,0,0>>,
       <<0,0,0,0,5,0,4,0,7>>, <<0,0,8,0,0,0,3,0,0>>, <<0,0,1,0,9,0,0,0,0>>,
       <<3,0,0,4,0,0,2,0,0>>, <<0,5,0,1,0,0,0,0,0>>, <<0,0,0,8,0,6,0,0,0>> >>

Seventeen == [r \in 0..8 |-> [c \in 0..8 |-> SeventeenRows[r + 1][c + 1]]]

\* cells of the first 16 of Solved given another digit, <<index, digit>>:
\* the first five leave a grid with a conflict that the search can fill, the
\* sixth a conflict-free grid, the last four a grid with a conflict that the
\* search cannot fill
SparseOverwrites ==
    {<<1, 5>>, <<3, 7>>, <<5, 9>>, <<13, 5>>, <<9, 1>>, <<15, 2>>,
     <<3, 1>>, <<6, 2>>, <<12, 1>>, <<0, 7>>}

\* grids of 0 to 16 filled cells: the first cells of Solved, the same with
\* one cell overwritten, and Seventeen less its clue at (5, 2)
SparseGrids ==
    {FirstCells(Solved, k) : k \in 0..16}
    \cup {SetCell(FirstCells(Solved, 16), w[1], w[2]) : w \in SparseOverwrites}
    \cup {SetCell(Seventeen, 47, 0)}

InitSparse ==
    /\ heap \in {HeapOf(g) : g \in SparseGrids}
    /\ pc = "idle"
    /\ op = "none"
    /\ args = NoArgs
    /\ ret = FALSE
    /\ before = heap.grid
    /\ search = SearchOff
    /\ gen = GenOff

NextSparse ==
    \/ CallHasUniqueSolution
    \/ ReturnHasUniqueSolution
    \/ count_call
    \/ count_resume
    \/ Continue

SpecSparse == InitSparse /\ [][NextSparse]_vars

\* C21: Solver.hasUniqueSolution returns false for every grid that has fewer
\* than 17 filled cells, whatever digits those cells hold.
C21_SparseNeverUnique ==
    Returned("hasUniqueSolution") /\ filledCount(before) < 17 => ret = FALSE

\* hasUniqueSolution has returned false on a conflict-free grid of 16 filled
\* cells, after its count found two fillings
C21_Witness ==
    /\ Returned("hasUniqueSolution")
    /\ filledCount(before) = 16
    /\ NoConflict(before)
    /\ Len(search.found) = 2
    /\ ret = FALSE

(***************************************************************************)
(* Generator.getCluesCount called on its own                               *)
(***************************************************************************)
InitClues ==
    /\ heap = HeapOf(Empty)
    /\ pc = "idle"
    /\ op = "none"
    /\ args = NoArgs
    /\ ret = FALSE
    /\ before = Empty
    /\ search = SearchOff
    /\ gen = GenOff

\* a caller calls Generator.getCluesCount(difficulty); u is the outcome of
\* Math.random() in the call
CallGetCluesCount ==
    /\ pc = "idle"
    /\ \E difficulty \in Tiers, u \in 0..(RandomSteps - 1) :
         /\ ret' = getCluesCount(difficulty, u)
         /\ args' = [difficulty |-> difficulty, u |-> u]
    /\ pc' = "returned"
    /\ op' = "getCluesCount"
    /\ UNCHANGED <<heap, before, search, gen>>

NextClues ==
    \/ CallGetCluesCount
    \/ Continue

SpecClues == InitClues /\ [][NextClues]_vars

\* the range a tier is said to have
SaidRange(difficulty) ==
    CASE difficulty = "beginner" -> 46..50
      [] difficulty = "easy"     -> 40..44
      [] difficulty = "medium"   -> 32..37
      [] difficulty = "hard"     -> 28..31
      [] difficulty = "expert"   -> 22..26
      [] difficulty = "master"   -> 18..21

\* the tiers from the easiest to the hardest
TierOrder == <<"beginner", "easy", "medium", "hard", "expert", "master">>

\* the tiers that are harder than difficulty
HarderThan(difficulty) ==
    {TierOrder[j] : j \in {j \in 1..6 : \E i \in 1..6 : i < j /\ TierOrder[i] = difficulty}}

\* C22: Generator.getCluesCount returns, for every random outcome, a clue
\* count inside the tier's range (beginner 46-50, easy 40-44, medium 32-37,
\* hard 28-31, expert 22-26, master 18-21); every count a harder tier can get
\* is below it, and it is not below 17.
C22_CluesCountInTierRange ==
    Returned("getCluesCount") =>
        /\ ret \in SaidRange(args.difficulty)
        /\ \A harder \in HarderThan(args.difficulty) :
             \A u \in 0..(RandomSteps - 1) : getCluesCount(harder, u) < ret
        /\ ret >= 17

\* getCluesCount has returned the least count of the tier next to the
\* hardest, for which the hardest tier can get a count one below
C22_Witness ==
    /\ Returned("getCluesCount")
    /\ args.difficulty = "expert" /\ ret = 22
    /\ \E u \in 0..(RandomSteps - 1) : getCluesCount("master", u) = 21

\* Generator.removeNumbers is running or has just returned
InRemoveNumbers == pc \in {"removeNumbers", "removeNumbers:test", "removeNumbers:returned"}

\* the tiers whose removals are said to go untested
LowerTiers == {"beginner", "easy", "medium"}

\* C23: Generator.removeNumbers never clears more than cellsToRemove =
\* 81 - cluesCount cells: it leaves its loop as soon as that many removals
\* are counted or the 81 shuffled positions are used up; for the tiers
\* beginner, easy and medium hasUniqueSolutionFast is never called, every
\* visited position is counted, and the returned puzzle has exactly
\* cluesCount filled cells.
C23_RemovesAtMostCellsToRemove ==
    /\ [](InRemoveNumbers =>
            /\ gen.cellsToRemove = 81 - gen.cluesCount
            /\ gen.removed <= gen.cellsToRemove
            /\ emptyCount(heap.puzzle) <= gen.cellsToRemove)
    /\ [][pc = "removeNumbers" /\ gen.removed >= gen.cellsToRemove
            => pc' = "removeNumbers:returned"]_vars
    /\ [](pc = "removeNumbers:returned" =>
            /\ gen.removed = gen.cellsToRemove \/ gen.idx = 82
            /\ emptyCount(heap.puzzle) = gen.removed)
    /\ [](gen.difficulty \in LowerTiers =>
            /\ search.kind # "fast"
            /\ pc # "removeNumbers:test"
            /\ InRemoveNumbers => gen.removed = gen.idx - 1
            /\ pc = "removeNumbers:returned" =>
                 filledCount(heap.puzzle) = gen.cluesCount)

\* removeNumbers has returned a medium puzzle of cluesCount filled cells
\* after visiting cellsToRemove positions
C23_Witness ==
    /\ pc = "removeNumbers:returned"
    /\ gen.difficulty = "medium"
    /\ gen.idx = gen.cellsToRemove + 1
    /\ filledCount(heap.puzzle) = gen.cluesCount

(***************************************************************************)
(* Generator.hashGrid                                                      *)
(***************************************************************************)
\* a JavaScript string is modelled as the sequence of its characters
DigitChars == <<"0", "1", "2", "3", "4", "5", "6", "7", "8", "9">>

\* the string that join makes of a number: its decimal digits
RECURSIVE numberToString(_)
numberToString(n) ==
    IF n < 10 THEN <<DigitChars[n + 1]>>
    ELSE numberToString(n \div 10) \o <<DigitChars[(n % 10) + 1]>>

\* Array.prototype.flat on the array of rows, from row r on
RECURSIVE flatFrom(_, _)
flatFrom(grid, r) ==
    IF r > 8 THEN <<>>
    ELSE [c \in 1..9 |-> grid[r][c - 1]] \o flatFrom(grid, r + 1)

flat(grid) == flatFrom(grid, 0)

\* Array.prototype.join('') on the elements lo..hi of array
RECURSIVE joinRange(_, _, _)
joinRange(array, lo, hi) ==
    IF lo > hi THEN <<>>
    ELSE IF lo = hi THEN numberToString(array[lo])
    ELSE LET mid == (lo + hi) \div 2
         IN  joinRange(array, lo, mid) \o joinRange(array, mid + 1, hi)

join(array) == joinRange(array, 1, Len(array))

\* hashGrid leaving the zeros out of the string
hashGrid_skipEmpty(grid) == join(SelectSeq(flat(grid), LAMBDA n : n # 0))

\* Generator.hashGrid
hashGrid(grid) == join(flat(grid))

\* the grids hashGrid is called on: a solved grid and the all-zero grid, each
\* also with one of the first two, the middle or the last cell given any
\* of 0..9
HashGrids ==
    {SetCell(g, i, v) : g \in {Solved, Empty}, i \in {0, 1, 40, 80}, v \in 0..9}

\* a caller holds two grids
InitHash ==
    /\ heap \in {[HeapOf(g) EXCEPT !.testGrid = h] : g \in HashGrids, h \in HashGrids}
    /\ pc = "idle"
    /\ op = "none"
    /\ args = NoArgs
    /\ ret = FALSE
    /\ before = heap.grid
    /\ search = SearchOff
    /\ gen = GenOff

\* the caller calls Generator.hashGrid on its first grid
CallHashGrid ==
    /\ pc = "idle"
    /\ ret' = hashGrid(heap.grid)
    /\ pc' = "returned"
    /\ op' = "hashGrid"
    /\ UNCHANGED <<heap, args, before, search, gen>>

\* the caller calls Generator.hashGrid on its second grid; args keeps the
\* string of the first call
CallHashGridOther ==
    /\ pc = "returned" /\ op = "hashGrid"
    /\ args' = [first |-> ret]
    /\ ret' = hashGrid(heap.testGrid)
    /\ op' = "hashGridOther"
    /\ UNCHANGED <<heap, pc, before, search, gen>>

NextHash ==
    \/ CallHashGrid
    \/ CallHashGridOther

SpecHash == InitHash /\ [][NextHash]_vars

\* C24: on 9x9 grids with cells in 0..9 Generator.hashGrid gives equal
\* strings for equal grids and different strings for grids that differ in
\* at least one cell; the string is the 81 digits in row-major order.
C24_HashGridInjective ==
    Returned("hashGridOther") =>
        /\ (args.first = ret) <=> (heap.grid = heap.testGrid)
        /\ Len(ret) = 81
        /\ \A i \in 0..80 : ret[i + 1] = DigitChars[heap.testGrid[i \div 9][i % 9] + 1]

\* hashGrid has given different strings for two grids that differ in one
\* cell only, empty in one and 9 in the other
C24_Witness ==
    /\ Returned("hashGridOther")
    /\ heap.grid[4][4] = 0 /\ heap.testGrid[4][4] = 9
    /\ \A r \in 0..8, c \in 0..8 :
         <<r, c>> # <<4, 4>> => heap.grid[r][c] = heap.testGrid[r][c]
    /\ args.first # ret

\* the invocations of the recursive search that are active: those inside
\* their loop, which wait for a recursive call to return, and the one that
\* has been called and has not returned
activeInvocations ==
    Len(search.stack) + (IF search.mode = "call" THEN 1 ELSE 0)

\* C25 as claimed: during any call of Solver.solve or Solver.countSolutions
\* the number of nested active invocations of the recursive search never
\* exceeds 81, for every input grid including the all-zero grid.
C25_DepthAtMost81 ==
    search.kind \in {"solve", "count"} => activeInvocations <= 81

\* C25 amended: during any call of Solver.solve or Solver.countSolutions the
\* number of nested active invocations of the recursive search never exceeds
\* the number of empty cells of the input grid plus one, hence never exceeds
\* 82.
C25_DepthAtMostEmptyPlusOne ==
    search.kind \in {"solve", "count"} =>
        /\ activeInvocations <= emptyCount(before) + 1
        /\ activeInvocations <= 82

\* Solver.solve called on the all-zero grid has 82 invocations active: 81
\* that have placed a digit and one that is about to find no empty cell
C25_Witness ==
    /\ pc = "solve" /\ before = Empty
    /\ search.mode = "call" /\ Len(search.stack) = 81
    /\ activeInvocations = 82

\* C26: Solver.solve never changes a cell that was non-zero when it was
\* called: at every step of the call and on return, true or false, every
\* cell that held a digit on entry still holds that digit, in the caller's
\* grid and in the copy Play.placeHintInCell hands to solve alike.
C26_SolveKeepsGivenCells ==
    /\ op = "solve" /\ pc \in {"solve", "returned"} => Extends(heap.grid, before)
    /\ op = "solveCopy" /\ pc \in {"solveCopy", "returned"} =>
           Extends(heap.gridCopy, before)

\* solve has returned true on a grid of given and empty cells after it took
\* back at least one digit it had placed: the first empty cell does not hold
\* the least digit that fitted it
C26_Witness ==
    /\ Returned("solve") /\ ret = TRUE
    /\ ~Complete(before) /\ before # Empty
    /\ Extends(heap.grid, before)
    /\ LET e == findEmptyCell(before)
       IN  heap.grid[e[1]][e[2]] # minOf(validFrom(before, e[1], e[2], 1))

(***************************************************************************)
(* Solver.solve called on grids that have several completions              *)
(***************************************************************************)
\* g with every cell cleared that holds a digit of D
ClearDigits(g, D) ==
    [r \in 0..8 |-> [c \in 0..8 |-> IF g[r][c] \in D THEN 0 ELSE g[r][c]]]

\* g with the rows of R cleared
ClearRows(g, R) ==
    [r \in 0..8 |-> [c \in 0..8 |-> IF r \in R THEN 0 ELSE g[r][c]]]

\* Solved with its rows in the opposite order, a solved grid as well
Reversed == [r \in 0..8 |-> Solved[8 - r]]

\* grids of 9 or 18 empty cells: a solved grid less the cells of one or two
\* digits, or less one or two rows
SeveralGrids ==
    {ClearDigits(Reversed, {a, b}) : a \in 1..9, b \in 1..9}
    \cup {ClearRows(Reversed, {r1, r2}) : r1 \in 0..8, r2 \in 0..8}

InitSeveral ==
    /\ heap \in {HeapOf(g) : g \in SeveralGrids}
    /\ pc = "idle"
    /\ op = "none"
    /\ args = NoArgs
    /\ ret = FALSE
    /\ before = heap.grid
    /\ search = SearchOff
    /\ gen = GenOff

NextSeveral ==
    \/ CallSolve
    \/ ReturnSolve
    \/ solve_call
    \/ solve_resume

SpecSeveral == InitSeveral /\ [][NextSeveral]_vars

\* g comes before h or is h, comparing cell by cell in row-major order
LexLeq(g, h) ==
    \/ g = h
    \/ \E i \in 0..80 :
         /\ g[i \div 9][i % 9] < h[i \div 9][i % 9]
         /\ \A j \in 0..(i - 1) : g[j \div 9][j % 9] = h[j \div 9][j % 9]

\* C27: when a conflict-free grid has several completions, the one
\* Solver.solve leaves in the grid is the lexicographically smallest of them,
\* comparing completions cell by cell in row-major order with digits ordered
\* 1 < 2 < ... < 9.
C27_SolveLeavesSmallest ==
    (Returned("solve") /\ NoConflict(before)) =>
        LET completions == Completions(before)
        IN  Cardinality(completions) >= 2 =>
              /\ ret = TRUE
              /\ heap.grid \in completions
              /\ \A h \in completions : LexLeq(heap.grid, h)

\* solve has returned on a grid that has more than two completions, and the
\* one it left is not the solved grid the cells were cleared from
C27_Witness ==
    /\ Returned("solve") /\ NoConflict(before) /\ ret = TRUE
    /\ Cardinality(Completions(before)) > 2
    /\ heap.grid # Reversed
    /\ LexLeq(heap.grid, Reversed)

(***************************************************************************)
(* Solver.hasUniqueSolution and Generator.hasUniqueSolutionFast called on  *)
(* the same grid                                                           *)
(***************************************************************************)
InitBoth ==
    /\ heap \in {HeapOf(g) : g \in InputGrids \cup SeveralGrids}
    /\ pc = "idle"
    /\ op = "none"
    /\ args = NoArgs
    /\ ret = FALSE
    /\ before = heap.grid
    /\ search = SearchOff
    /\ gen = GenOff

\* after Solver.hasUniqueSolution(grid) has returned the caller calls
\* Generator.hasUniqueSolutionFast(grid) on the same grid; args keeps what
\* the first call returned
CallHasUniqueSolutionFastToo ==
    /\ pc = "returned" /\ op = "hasUniqueSolution"
    /\ args' = [first |-> ret]
    /\ heap' = [heap EXCEPT !.gridCopy = copyGrid(heap.grid)]
    /\ search' = SearchStart("fast", "gridCopy", 0)
    /\ pc' = "hasUniqueSolutionFast"
    /\ op' = "hasUniqueSolutionFastToo"
    /\ UNCHANGED <<ret, before, gen>>

NextBoth ==
    \/ CallHasUniqueSolution
    \/ ReturnHasUniqueSolution
    \/ CallHasUniqueSolutionFastToo
    \/ ReturnHasUniqueSolutionFast
    \/ count_call
    \/ count_resume
    \/ fast_call
    \/ fast_resume

SpecBoth == InitBoth /\ [][NextBoth]_vars

C29_RemoveNumbersKeepsSolvedGrid ==
    /\ [][InRemoveNumbers' => heap'.solvedGrid = heap.solvedGrid]_vars
    /\ [](InRemoveNumbers => Extends(heap.solvedGrid, heap.puzzle))
    /\ [](pc = "removeNumbers:returned" =>
            /\ Completion(heap.solvedGrid, heap.puzzle)
            /\ heap.puzzle # heap.solvedGrid)

\* removeNumbers has returned an expert puzzle whose removals were tested,
\* one of them put back; the solved grid is whole and completes the puzzle
C29_Witness ==
    /\ pc = "removeNumbers:returned"
    /\ gen.difficulty = "expert"
    /\ gen.removed < gen.idx - 1
    /\ Complete(heap.solvedGrid)
    /\ Completion(heap.solvedGrid, heap.puzzle)
    /\ filledCount(heap.puzzle) < 81

(***************************************************************************)
(* Grid: the play grid with its notes and its undo and redo stacks         *)
(* (src/js/grid.js).  heap holds the fields of Grid; arrays is the store   *)
(* of the note arrays, a note array being known by its place in it, so     *)
(* that two fields holding the same place hold the same array.             *)
(***************************************************************************)
maxHistorySize == 100

\* at most MaxPlayOps operations are performed
MaxPlayOps == 5
\* setCellValue is called with a value of 0..MaxPlayValue
MaxPlayValue == 2
\* toggleNote is called with a number of 1..MaxPlayNote
MaxPlayNote == 2
\* the cells the operations are called on: two free cells and a given one
PlayIndexes == {0, 1, 2}

\* Array(10).fill(false)
NoNotes == [n \in 0..9 |-> FALSE]

\* the puzzle that is loaded: one given cell, at (0, 2)
PlayOriginal == [r \in 0..8 |-> [c \in 0..8 |-> IF r = 0 /\ c = 2 THEN 3 ELSE 0]]

\* Grid after a puzzle is loaded: every cell has a note array of its own
PlayStart ==
    [currentGrid |-> copyGrid(PlayOriginal), originalGrid |-> PlayOriginal,
     cellNotes |-> [i \in 0..80 |-> i + 1],
     arrays |-> [a \in 1..81 |-> NoNotes],
     undoStack |-> <<>>, redoStack |-> <<>>]

\* history: the operations so far, and for every action of undoStack and of
\* redoStack the cell as it was before and after the action was performed
NoHistory == [ops |-> 0, undo |-> <<>>, redo |-> <<>>]

InitPlay ==
    /\ heap = PlayStart
    /\ pc = "idle"
    /\ op = "none"
    /\ args = NoArgs
    /\ ret = FALSE
    /\ before = NoHistory
    /\ search = SearchOff
    /\ gen = GenOff

\* this.cellNotes[index], the array
notesOf(h, index) == h.arrays[h.cellNotes[index]]

\* the value and the notes of the cell index
cellOf(h, index) ==
    [value |-> h.currentGrid[getRowCol(index).row][getRowCol(index).col],
     notes |-> notesOf(h, index)]

\* Grid.saveToHistory
saveToHistory(h, action) ==
    LET pushed == Append(h.undoStack, action)
    IN  [h EXCEPT !.undoStack = IF Len(pushed) > maxHistorySize
                                THEN Tail(pushed) ELSE pushed,
                  !.redoStack = <<>>]

\* the history kept along with saveToHistory
savedToHistory(was) ==
    LET pushed == Append(before.undo, was)
    IN  [before EXCEPT !.undo = IF Len(pushed) > maxHistorySize
                                THEN Tail(pushed) ELSE pushed,
                       !.redo = <<>>,
                       !.ops = @ + 1]

\* Grid.clearCellNotes: fill(false) on the array itself
clearCellNotes(h, index) == [h EXCEPT !.arrays[h.cellNotes[index]] = NoNotes]

\* a user operation can be performed
CanOperate == pc \in {"idle", "returned"} /\ before.ops < MaxPlayOps

\* Grid.setCellValue(row, col, value), skipHistory false.  The copy oldNotes
\* is put in the store only when the action that holds it is saved.
setCellValue ==
    /\ CanOperate
    /\ \E index \in PlayIndexes, value \in 0..MaxPlayValue :
         LET row == getRowCol(index).row
             col == getRowCol(index).col
             oldValue == heap.currentGrid[row][col]
             saved == heap.originalGrid[row][col] = 0 /\ oldValue # value
             h1 == IF saved
                   THEN saveToHistory(
                            [heap EXCEPT !.arrays = Append(@, notesOf(heap, getIndex(row, col)))],
                            [type |-> "cell", row |-> row, col |-> col,
                             index |-> 0, oldValue |-> oldValue, newValue |-> value,
                             oldNotes |-> Len(heap.arrays) + 1, newNotes |-> 0,
                             toggledNumber |-> 0])
                   ELSE heap
             h2 == [h1 EXCEPT !.currentGrid[row][col] = value]
             h3 == IF value # 0 THEN clearCellNotes(h2, getIndex(row, col)) ELSE h2
         IN  /\ args' = [index |-> index, value |-> value, acted |-> saved]
             /\ IF heap.originalGrid[row][col] # 0
                THEN /\ heap' = heap
                     /\ before' = [before EXCEPT !.ops = @ + 1]
                ELSE /\ heap' = h3
                     /\ before' = IF saved
                                  THEN savedToHistory([index |-> index,
                                                       was |-> cellOf(heap, index),
                                                       became |-> cellOf(h3, index)])
                                  ELSE [before EXCEPT !.ops = @ + 1]
    /\ pc' = "returned"
    /\ op' = "setCellValue"
    /\ UNCHANGED <<ret, search, gen>>

\* Grid.toggleNote(index, number), skipHistory false
toggleNote ==
    /\ CanOperate
    /\ \E index \in PlayIndexes, number \in 1..MaxPlayNote :
         LET row == getRowCol(index).row
             col == getRowCol(index).col
             acts == heap.currentGrid[row][col] = 0 /\ heap.originalGrid[row][col] = 0
             h1 == saveToHistory(
                       [heap EXCEPT !.arrays = @ \o <<notesOf(heap, index), notesOf(heap, index)>>],
                       [type |-> "notes", row |-> 0, col |-> 0,
                        index |-> index, oldValue |-> 0, newValue |-> 0,
                        oldNotes |-> Len(heap.arrays) + 1,
                        newNotes |-> Len(heap.arrays) + 2,
                        toggledNumber |-> number])
             h2 == [h1 EXCEPT !.arrays[h1.cellNotes[index]][number] = ~@]
         IN  /\ args' = [index |-> index, number |-> number, acted |-> acts]
             /\ IF ~acts
                THEN /\ heap' = heap
                     /\ before' = [before EXCEPT !.ops = @ + 1]
                ELSE /\ heap' = h2
                     /\ before' = savedToHistory([index |-> index,
                                                  was |-> cellOf(heap, index),
                                                  became |-> cellOf(h2, index)])
    /\ pc' = "returned"
    /\ op' = "toggleNote"
    /\ UNCHANGED <<ret, search, gen>>

\* Grid.undo
undo ==
    /\ CanOperate
    /\ IF Len(heap.undoStack) = 0
       THEN /\ heap' = heap
            /\ before' = [before EXCEPT !.ops = @ + 1]
            /\ args' = [acted |-> FALSE]
       ELSE LET action == heap.undoStack[Len(heap.undoStack)]
                h1 == [heap EXCEPT
                         !.undoStack = SubSeq(@, 1, Len(@) - 1),
                         !.redoStack = Append(@, action)]
            IN  /\ heap' =
                     IF action.type = "cell"
                     THEN [h1 EXCEPT
                             !.currentGrid[action.row][action.col] = action.oldValue,
                             !.cellNotes[getIndex(action.row, action.col)] = action.oldNotes]
                     ELSE [h1 EXCEPT !.cellNotes[action.index] = action.oldNotes]
                /\ before' = [before EXCEPT
                                !.undo = SubSeq(@, 1, Len(@) - 1),
                                !.redo = Append(@, before.undo[Len(before.undo)]),
                                !.ops = @ + 1]
                /\ args' = [acted |-> TRUE]
    /\ pc' = "returned"
    /\ op' = "undo"
    /\ UNCHANGED <<ret, search, gen>>

\* Grid.redo
redo ==
    /\ CanOperate
    /\ IF Len(heap.redoStack) = 0
       THEN /\ heap' = heap
            /\ before' = [before EXCEPT !.ops = @ + 1]
            /\ args' = [acted |-> FALSE]
       ELSE LET action == heap.redoStack[Len(heap.redoStack)]
                h1 == [heap EXCEPT
                         !.redoStack = SubSeq(@, 1, Len(@) - 1),
                         !.undoStack = Append(@, action)]
            IN  /\ heap' =
                     IF action.type = "cell"
                     THEN LET h2 == [h1 EXCEPT
                                       !.currentGrid[action.row][action.col] = action.newValue]
                          IN  IF action.newValue # 0
                              THEN [h2 EXCEPT
                                      !.arrays = Append(@, NoNotes),
                                      !.cellNotes[getIndex(action.row, action.col)] =
                                          Len(h2.arrays) + 1]
                              ELSE h2
                     ELSE [h1 EXCEPT
                             !.arrays[h1.cellNotes[action.index]][action.toggledNumber] = ~@]
                /\ before' = [before EXCEPT
                                !.redo = SubSeq(@, 1, Len(@) - 1),
                                !.undo = Append(@, before.redo[Len(before.redo)]),
                                !.ops = @ + 1]
                /\ args' = [acted |-> TRUE]
    /\ pc' = "returned"
    /\ op' = "redo"
    /\ UNCHANGED <<ret, search, gen>>

NextPlay ==
    \/ setCellValue
    \/ toggleNote
    \/ undo
    \/ redo

SpecPlay == InitPlay /\ [][NextPlay]_vars

\* C30 as claimed: in the play grid, after any sequence of setCellValue,
\* toggleNote, undo and redo operations, Grid.undo restores the affected
\* cell's value and notes to exactly what they were immediately before the
\* undone action was first performed, and Grid.redo restores what they were
\* immediately after it (so toggleNote, undo, redo, undo leaves the cell's
\* notes as they were before the toggle).
C30_UndoRedoRestoreCell ==
    /\ (Returned("undo") /\ args.acted) =>
          LET action == before.redo[Len(before.redo)]
          IN  cellOf(heap, action.index) = action.was
    /\ (Returned("redo") /\ args.acted) =>
          LET action == before.undo[Len(before.undo)]
          IN  cellOf(heap, action.index) = action.became
====
